---- MODULE Spec2Model ----
(***************************************************************************)
(* A model of the kernel's ResourceAllocator                               *)
(* (sos/src/memory/allocator/resource_allocator.rs), the vmem-style extent *)
(* allocator, together with the DoublyLinkedList operations it uses        *)
(* (sos/src/collections/linked.rs).                                        *)
(*                                                                         *)
(* Heap objects are modelled by handles.  A segment-list node is a SegId,  *)
(* a freelist node is an FnId, 0 is the absent pointer (None).  A list is  *)
(* the sequence of the handles of its nodes from head to tail.  A freed    *)
(* node's slot is reset and its handle is reused by the next allocation.   *)
(*                                                                         *)
(* Arithmetic is usize arithmetic of a build with overflow checks: a       *)
(* subtraction that would go below zero panics.  A panic stops the kernel: *)
(* the state it leaves is kept, and no operation runs after it.            *)
(***************************************************************************)
EXTENDS Integers, Sequences, FiniteSets, TLC

\* ---------------------------------------------------------------- bounds
\* Addresses range over 0..MaxAddr.
MaxAddr == 5
\* The quantum Q ranges over 1..MaxQ.
MaxQ == 2
\* The small class counts M explored by SpecSmallM range over 1..MaxSmallM.
MaxSmallM == 2
\* The number of ranges added under SpecAbutting.
MaxAbuttingAdds == 2
\* The heap holds at most MaxNodes nodes of the DoublyLinkedList of SpecList.
MaxNodes == 4
\* The values stored in that list range over 1..MaxValue.
MaxValue == 2
\* The bump allocator's heap is HeapSize bytes long and starts at an address
\* in 1..MaxHeapStart.
HeapSize == 5
MaxHeapStart == 2
\* Layouts have align 2^k for k in 0..MaxAlignLog2 and size in 0..HeapSize.
MaxAlignLog2 == 1
\* At most MaxLive blocks are live at a time.
MaxLive == 3
\* MaxProcs callers share the locked allocator; they request layouts of size
\* 1..MaxLockedSize.
MaxProcs == 2
MaxLockedSize == 2
\* Physical frames the frame source of map_if_unmapped can hand out.
MaxFrames == 8
\* Frames handed out while translations are cached.
MaxTLBFrames == 5
\* Live allocations of the PageAllocator.
MaxPALive == 2
MaxNest == 2
MaxDepth == 3

\* ------------------------------------------------------------- constants
\* Default class count: 8 * size_of::<usize>() on x86_64.
WordBits == 64
\* memory/mod.rs: const PAGE_SIZE
PAGE_SIZE == 4096

NoPanic == "none"
PanicRelease == "release: unwrap on None"
PanicIndex == "index out of bounds"
PanicSub == "attempt to subtract with overflow"
PanicLog == "log2 of zero"
PanicUnwrap == "unwrap on Err"
PanicExpect == "Failed to allocate frame during kernel heap init"
PanicDeref == "Tried to dereference non-present page table"

SegIds == 1..MaxAddr
FnIds == 1..MaxAddr
Addrs == 0..MaxAddr
\* Range<usize> values start..end with start <= end.
Ranges == {r \in [start : Addrs, end : Addrs] : r.start <= r.end}
\* Sizes requested from allocate.
Sizes == 0..MaxAddr

VARIABLES
    ra,          \* the ResourceAllocator
    added,       \* history: every range passed to add
    outstanding, \* history: ranges returned by allocate and not yet released
    last,        \* history: the last call, its argument and its outcome
    dl,          \* the DoublyLinkedList: head, tail and the nodes on the heap
    ref,         \* history: the reference sequence of (handle, value) pairs
    dlast,       \* history: the last list call and what it returned
    bump,        \* the BumpAllocator
    live,        \* history: the blocks returned by alloc and not yet deallocated
    blast,       \* history: the last bump allocator call and its outcome
    lock,        \* the spin::Mutex of Locked: 0 (free) or the caller holding it
    pc,          \* the callers of the locked allocator: where each one is
    mem,         \* the page tables in memory
    handed,      \* the number of frames next_frame has handed out
    tlast,       \* history: the last page table call and its outcome
    supplied,    \* history: the frame next_frame supplied for each L1 entry
    tlb,         \* the translation lookaside buffer of the CPU
    pa,          \* the PageAllocator: vmem and pmem
    boot,        \* what memory::init was given and what it pulled
    palive,      \* history: the live allocations of the PageAllocator
    palast,      \* history: the last PageAllocator call and its outcome
    iflag,       \* the interrupt-enable flag of RFLAGS
    stack,       \* the code running on the CPU: the kernel and, above it,
                 \* the interrupt handlers that interrupted it
    held         \* the allocator locks: who holds each

\* Each specification below drives one component; the variables of the other
\* components keep the value Idle throughout.
Idle == "idle"

ra_vars == <<ra, added, outstanding, last>>
dll_vars == <<dl, ref, dlast>>
bump_vars == <<bump, live, blast, lock, pc>>
pt_vars == <<mem, handed, tlast, supplied>>
tlb_vars == <<tlb>>
pa_vars == <<pa, boot, palive, palast>>
irq_vars == <<iflag, stack, held>>
kernel_vars == <<pt_vars, tlb_vars, pa_vars, irq_vars>>
not_pt_vars == <<ra_vars, dll_vars, bump_vars, tlb_vars, pa_vars, irq_vars>>

vars == <<ra_vars, dll_vars, bump_vars, kernel_vars>>

RAIdle == ra = Idle /\ added = Idle /\ outstanding = Idle /\ last = Idle
DLLIdle == dl = Idle /\ ref = Idle /\ dlast = Idle
BumpIdle == bump = Idle /\ live = Idle /\ blast = Idle /\ lock = Idle /\ pc = Idle
PTIdle == mem = Idle /\ handed = Idle /\ tlast = Idle /\ supplied = Idle
TLBIdle == tlb = Idle
PAIdle == pa = Idle /\ boot = Idle /\ palive = Idle /\ palast = Idle
IRQIdle == iflag = Idle /\ stack = Idle /\ held = Idle
KernelIdle == PTIdle /\ TLBIdle /\ PAIdle /\ IRQIdle

\* ------------------------------------------------------------ arithmetic
Min(a, b) == IF a < b THEN a ELSE b
Max(a, b) == IF a > b THEN a ELSE b

\* usize::div_ceil
DivCeil(a, b) == (a + b - 1) \div b

RECURSIVE Log2(_)
\* usize::log2 (rounds down), for n >= 1
Log2(n) == IF n <= 1 THEN 0 ELSE 1 + Log2(n \div 2)

\* The number of bits of n: usize::BITS - n.leading_zeros()
RECURSIVE BitLen(_)
BitLen(n) == IF n = 0 THEN 0 ELSE 1 + BitLen(n \div 2)

ceil_log2(u) == BitLen(u - 1)

\* ----------------------------------------------------------------- Segment
NoSegment == [start |-> 0, end |-> 0, freelist_ptr |-> 0]

Segment_new(range) == [start |-> range.start, end |-> range.end, freelist_ptr |-> 0]

size(s) == s.end - s.start

is_allocated(s) == s.freelist_ptr = 0

\* can_join testing one direction only.
can_join_one_way(a, b) == a.end = b.start

can_join(a, b) == a.end = b.start \/ a.start = b.end

\* ------------------------------------------------------ DoublyLinkedList
\* A list is the sequence of its nodes' handles.
InList(list, n) == \E i \in 1..Len(list) : list[i] = n

IndexOf(list, n) == CHOOSE i \in 1..Len(list) : list[i] = n

append(list, n) == Append(list, n)

insert_front(list, n) == <<n>> \o list

insert_after(list, at, n) ==
    LET i == IndexOf(list, at)
    IN  SubSeq(list, 1, i) \o <<n>> \o SubSeq(list, i + 1, Len(list))

remove(list, n) == SelectSeq(list, LAMBDA x : x # n)

\* node.prev and node.next of a node of the list (0: None)
prev_of(list, n) ==
    LET i == IndexOf(list, n) IN IF i = 1 THEN 0 ELSE list[i - 1]

next_of(list, n) ==
    LET i == IndexOf(list, n) IN IF i = Len(list) THEN 0 ELSE list[i + 1]

\* ------------------------------------------------------ ResourceAllocator
ResourceAllocator_new(q, m) ==
    [Q |-> q, M |-> m,
     freelists |-> [k \in 0..(m - 1) |-> <<>>],
     allocated_segments |-> <<>>,
     segments |-> <<>>,
     node |-> [i \in SegIds |-> NoSegment],
     fnode |-> [i \in FnIds |-> 0],
     panic |-> NoPanic]

Panic(a, why) == [a EXCEPT !.panic = why]

\* Box::new_in for a segment-list node and for a freelist node: a handle
\* that designates no live node.
new_segment_node(a) == CHOOSE i \in SegIds :
    /\ ~InList(a.segments, i)
    /\ \A j \in SegIds : ~InList(a.segments, j) => i <= j

new_freelist_node(a) == CHOOSE i \in FnIds :
    /\ a.fnode[i] = 0
    /\ \A j \in FnIds : a.fnode[j] = 0 => i <= j

\* floor(size / Q), the number of quanta a segment holds
quanta(a, s) == size(s) \div a.Q

segment_freelist_idx(a, s) == Min(Log2(quanta(a, s)), a.M)

\* freelist_insert putting the node at the back of its freelist.
freelist_insert_back(a, sp) ==
    IF a.panic # NoPanic THEN a
    ELSE IF quanta(a, a.node[sp]) = 0 THEN Panic(a, PanicLog)
    ELSE LET idx == segment_freelist_idx(a, a.node[sp])
         IN  IF idx >= a.M THEN Panic(a, PanicIndex)
             ELSE LET fn == new_freelist_node(a)
                  IN  [a EXCEPT !.freelists[idx] = append(@, fn),
                                !.fnode[fn] = sp,
                                !.node[sp].freelist_ptr = fn]

freelist_insert(a, sp) ==
    IF a.panic # NoPanic THEN a
    ELSE IF quanta(a, a.node[sp]) = 0 THEN Panic(a, PanicLog)
    ELSE LET idx == segment_freelist_idx(a, a.node[sp])
         IN  IF idx >= a.M THEN Panic(a, PanicIndex)
             ELSE LET fn == new_freelist_node(a)
                  IN  [a EXCEPT !.freelists[idx] = insert_front(@, fn),
                                !.fnode[fn] = sp,
                                !.node[sp].freelist_ptr = fn]

freelist_remove(a, sp) ==
    IF a.panic # NoPanic THEN a
    ELSE IF quanta(a, a.node[sp]) = 0 THEN Panic(a, PanicLog)
    ELSE LET idx == segment_freelist_idx(a, a.node[sp])
             fn == a.node[sp].freelist_ptr
         IN  IF idx >= a.M THEN Panic(a, PanicIndex)
             ELSE IF fn = 0 THEN a
             ELSE [a EXCEPT !.freelists[idx] = remove(@, fn),
                            !.fnode[fn] = 0,
                            !.node[sp].freelist_ptr = 0]

\* The result of fast_find_segment: the allocator after the search and the
\* segment found (0: Err).
Found(a, sp) == [ra |-> a, sp |-> sp]

\* The first node of a freelist, front to back, whose segment holds at least
\* `sz` addresses (0: none): DoublyLinkedList::find with the slow path's
\* predicate.
find(a, list, sz) ==
    LET hits == {i \in 1..Len(list) : size(a.node[a.fnode[list[i]]]) >= sz}
    IN  IF hits = {} THEN 0
        ELSE list[CHOOSE i \in hits : \A j \in hits : i <= j]

\* DoublyLinkedList::pop_front on freelist k: the head node is unlinked and
\* freed, its value (a segment pointer) is returned.
pop_front(a, k) ==
    LET fn == Head(a.freelists[k])
    IN  Found([a EXCEPT !.freelists[k] = Tail(@), !.fnode[fn] = 0], a.fnode[fn])

fast_find_segment(a, sz) ==
    LET qsize == Max(DivCeil(sz, a.Q), 1)
        fast == {k \in ceil_log2(qsize)..(a.M - 1) : a.freelists[k] # <<>>}
        freelist_idx == Log2(qsize)
    IN  IF fast # {}
        THEN pop_front(a, CHOOSE k \in fast : \A j \in fast : k <= j)
        ELSE IF freelist_idx < ceil_log2(qsize)
        THEN IF freelist_idx >= a.M THEN Found(Panic(a, PanicIndex), 0)
             ELSE LET fn == find(a, a.freelists[freelist_idx], sz)
                  IN  IF fn = 0 THEN Found(a, 0)
                      \* freelist.remove(node) frees the node and node.value is
                      \* read afterwards: the heap is the bump allocator, whose
                      \* dealloc leaves the freed bytes as they were
                      \* (bump_allocator.rs, dealloc), so the read yields the
                      \* value the node held.
                      ELSE Found([a EXCEPT !.freelists[freelist_idx] = remove(@, fn),
                                           !.fnode[fn] = 0],
                                 a.fnode[fn])
        ELSE Found(a, 0)

\* split that leaves the left part's end where it was.
split_keeps_end(a, sp, split_point, new) ==
    [a EXCEPT !.node[new] = Segment_new([start |-> split_point, end |-> a.node[sp].end]),
              !.segments = insert_after(@, sp, new)]

\* Segment::split at split_point, the new right part linked in after sp.
split(a, sp, split_point, new) ==
    [a EXCEPT !.node[new] = Segment_new([start |-> split_point, end |-> a.node[sp].end]),
              !.node[sp].end = split_point,
              !.segments = insert_after(@, sp, new)]

\* try_split_segment splitting only when more than Q is left over.
try_split_segment_strict(a, sp, alloc_size) ==
    IF a.panic # NoPanic THEN a
    ELSE IF size(a.node[sp]) < alloc_size THEN Panic(a, PanicSub)
    ELSE LET leftover_size == size(a.node[sp]) - alloc_size
             new == new_segment_node(a)
         IN  IF leftover_size > a.Q
             THEN freelist_insert(split(a, sp, a.node[sp].start + alloc_size, new), new)
             ELSE a

try_split_segment(a, sp, alloc_size) ==
    IF a.panic # NoPanic THEN a
    ELSE IF size(a.node[sp]) < alloc_size THEN Panic(a, PanicSub)
    ELSE LET leftover_size == size(a.node[sp]) - alloc_size
             new == new_segment_node(a)
         IN  IF leftover_size >= a.Q
             THEN freelist_insert(split(a, sp, a.node[sp].start + alloc_size, new), new)
             ELSE a

\* HashMap::insert
map_insert(map, k, v) == [x \in (DOMAIN map) \cup {k} |-> IF x = k THEN v ELSE map[x]]

\* HashMap::remove of a key that is present
map_remove(map, k) == [x \in (DOMAIN map) \ {k} |-> map[x]]

\* The result of fast_allocate: res is "ok" with the range returned,
\* "exhausted" (Err) or "panic".
Outcome(a, res, range) == [ra |-> a, res |-> res, range |-> range]

NoRange == [start |-> 0, end |-> 0]

RangeOf(s) == [start |-> s.start, end |-> s.end]

\* fast_allocate without the insert into allocated_segments.
fast_allocate_no_table(a, sz) ==
    LET f == fast_find_segment(a, sz)
    IN  IF f.ra.panic # NoPanic THEN Outcome(f.ra, "panic", NoRange)
        ELSE IF f.sp = 0 THEN Outcome(f.ra, "exhausted", NoRange)
        ELSE LET a1 == [f.ra EXCEPT !.node[f.sp].freelist_ptr = 0]
                 alloc_size == Max(DivCeil(sz, a.Q), 1) * a.Q
                 a2 == try_split_segment(a1, f.sp, alloc_size)
             IN  IF a2.panic # NoPanic THEN Outcome(a2, "panic", NoRange)
                 ELSE Outcome(a2, "ok", RangeOf(a2.node[f.sp]))

fast_allocate(a, sz) ==
    LET f == fast_find_segment(a, sz)
    IN  IF f.ra.panic # NoPanic THEN Outcome(f.ra, "panic", NoRange)
        ELSE IF f.sp = 0 THEN Outcome(f.ra, "exhausted", NoRange)
        ELSE LET a1 == [f.ra EXCEPT !.node[f.sp].freelist_ptr = 0]
                 qsize == Max(DivCeil(sz, a.Q), 1)
                 alloc_size == qsize * a.Q
                 a2 == try_split_segment(a1, f.sp, alloc_size)
                 range == RangeOf(a2.node[f.sp])
             IN  IF a2.panic # NoPanic THEN Outcome(a2, "panic", NoRange)
                 ELSE Outcome([a2 EXCEPT !.allocated_segments =
                                   map_insert(@, range.start, f.sp)],
                              "ok", range)

\* The predecessor merge left out.
coalesce_prev_never(a, sp) == Found(a, sp)

\* The predecessor merge of coalesce_and_freelist_insert: the working
\* segment after it is .sp.
coalesce_prev(a, sp) ==
    LET prev == prev_of(a.segments, sp)
        segment == a.node[sp]
    IN  IF prev # 0 /\ can_join(segment, a.node[prev]) /\ ~is_allocated(a.node[prev])
        THEN LET a1 == freelist_remove(a, prev)
             IN  IF a1.panic # NoPanic THEN Found(a1, sp)
                 \* segments.remove(segment_ptr) frees the node and
                 \* segment.range.end is read afterwards; as above the freed
                 \* bytes are unchanged, so the read yields the old end.
                 ELSE Found([a1 EXCEPT !.segments = remove(@, sp),
                                       !.node[sp] = NoSegment,
                                       !.node[prev].end = segment.end],
                            prev)
        ELSE Found(a, sp)

\* The successor merge left out.
coalesce_next_never(a, sp) == a

\* The successor merge unlinking the successor without taking over its end.
coalesce_next_no_extend(a, sp) ==
    LET next == next_of(a.segments, sp)
    IN  IF a.panic # NoPanic THEN a
        ELSE IF next # 0 /\ can_join(a.node[sp], a.node[next]) /\ ~is_allocated(a.node[next])
        THEN LET a1 == freelist_remove(a, next)
             IN  IF a1.panic # NoPanic THEN a1
                 ELSE [a1 EXCEPT !.segments = remove(@, next),
                                 !.node[next] = NoSegment]
        ELSE a

\* The successor merge unlinking the successor while it is still on its
\* freelist.
coalesce_next_on_freelist(a, sp) ==
    LET next == next_of(a.segments, sp)
    IN  IF a.panic # NoPanic THEN a
        ELSE IF next # 0 /\ can_join(a.node[sp], a.node[next]) /\ ~is_allocated(a.node[next])
        THEN [a EXCEPT !.node[sp].end = a.node[next].end,
                       !.segments = remove(@, next),
                       !.node[next] = NoSegment]
        ELSE a

\* The successor merge of coalesce_and_freelist_insert.
coalesce_next(a, sp) ==
    LET next == next_of(a.segments, sp)
    IN  IF a.panic # NoPanic THEN a
        ELSE IF next # 0 /\ can_join(a.node[sp], a.node[next]) /\ ~is_allocated(a.node[next])
        THEN LET a1 == freelist_remove([a EXCEPT !.node[sp].end = a.node[next].end], next)
             IN  IF a1.panic # NoPanic THEN a1
                 ELSE [a1 EXCEPT !.segments = remove(@, next),
                                 !.node[next] = NoSegment]
        ELSE a

coalesce_and_freelist_insert(a, sp) ==
    LET p == coalesce_prev(a, sp)
    IN  freelist_insert(coalesce_next(p.ra, p.sp), p.sp)

add(a, range) ==
    LET new == new_segment_node(a)
    IN  IF range.end - range.start >= a.Q
        THEN coalesce_and_freelist_insert(
                 [a EXCEPT !.node[new] = Segment_new(range),
                           !.segments = append(@, new)], new)
        ELSE a

\* release returning quietly when the start is not in the allocated-table.
release_unchecked(a, range) ==
    IF range.start \notin DOMAIN a.allocated_segments THEN a
    ELSE coalesce_and_freelist_insert(
             [a EXCEPT !.allocated_segments = map_remove(@, range.start)],
             a.allocated_segments[range.start])

\* release that takes a range whose end is not the end of the segment
\* allocated at range.start for a range that is not allocated.
release_checks_end(a, range) ==
    IF range.start \notin DOMAIN a.allocated_segments THEN Panic(a, PanicRelease)
    ELSE IF a.node[a.allocated_segments[range.start]].end # range.end
    THEN Panic(a, PanicRelease)
    ELSE coalesce_and_freelist_insert(
             [a EXCEPT !.allocated_segments = map_remove(@, range.start)],
             a.allocated_segments[range.start])

release(a, range) ==
    IF range.start \notin DOMAIN a.allocated_segments THEN Panic(a, PanicRelease)
    ELSE coalesce_and_freelist_insert(
             [a EXCEPT !.allocated_segments = map_remove(@, range.start)],
             a.allocated_segments[range.start])

\* ---------------------------------------------------------------- calls
\* A call and its outcome: the operation, the size (allocate) or range (add,
\* release) it was given, how it ended ("ok", "exhausted", "panic"), and for
\* an allocate the range returned and the range the segment picked by
\* fast_find_segment had when it was picked.
Call(op, sz, range, res, out, chosen) ==
    [op |-> op, size |-> sz, range |-> range, res |-> res, out |-> out,
     chosen |-> chosen]

\* The assumption documented on add: a range passed to add is not adjacent
\* to, does not overlap, and starts past every range of a previous call.
AddPrecondition(range) == \A p \in added : p.end < range.start

Init ==
    /\ \E q \in 1..MaxQ : ra = ResourceAllocator_new(q, WordBits)
    /\ added = {}
    /\ outstanding = {}
    /\ last = Call("new", 0, NoRange, "ok", NoRange, NoRange)
    /\ DLLIdle /\ BumpIdle /\ KernelIdle

\* Small class counts, to reach the top class within the address bound.
InitSmallM ==
    /\ \E q \in 1..MaxQ, m \in 1..MaxSmallM : ra = ResourceAllocator_new(q, m)
    /\ added = {}
    /\ outstanding = {}
    /\ last = Call("new", 0, NoRange, "ok", NoRange, NoRange)
    /\ DLLIdle /\ BumpIdle /\ KernelIdle

\* A call of add(range).
AddCall(range) ==
    /\ ra.panic = NoPanic
    /\ ra' = add(ra, range)
    /\ added' = added \cup {range}
    /\ outstanding' = outstanding
    /\ last' = Call("add", 0, range,
                    IF ra'.panic = NoPanic THEN "ok" ELSE "panic",
                    NoRange, NoRange)
    /\ UNCHANGED <<dll_vars, bump_vars, kernel_vars>>

Add == \E range \in Ranges : AddPrecondition(range) /\ AddCall(range)

\* A call of fast_allocate(sz).
AllocateCall(sz) ==
    LET r == fast_allocate(ra, sz)
        f == fast_find_segment(ra, sz)
    IN  /\ ra.panic = NoPanic
        /\ ra' = r.ra
        /\ added' = added
        /\ outstanding' = IF r.res = "ok" THEN outstanding \cup {r.range}
                          ELSE outstanding
        /\ last' = Call("allocate", sz, NoRange, r.res, r.range,
                        IF r.res = "ok" THEN RangeOf(ra.node[f.sp]) ELSE NoRange)
        /\ UNCHANGED <<dll_vars, bump_vars, kernel_vars>>

Allocate == \E sz \in Sizes : AllocateCall(sz)

\* The ranges passed to release: the ranges handed out, and for every address
\* the empty range that starts there (a start that may or may not be
\* allocated, with an end that is not the allocation's).
ReleaseArgs == outstanding \cup {r \in Ranges : r.end = r.start}

Release ==
    \E range \in ReleaseArgs :
        /\ ra.panic = NoPanic
        /\ ra' = release(ra, range)
        /\ added' = added
        /\ outstanding' = IF ra'.panic = NoPanic
                          THEN {o \in outstanding : o.start # range.start}
                          ELSE outstanding
        /\ last' = Call("release", 0, range,
                        IF ra'.panic = NoPanic THEN "ok" ELSE "panic",
                        NoRange, NoRange)
        /\ UNCHANGED <<dll_vars, bump_vars, kernel_vars>>

Next == Add \/ Allocate \/ Release

Spec == Init /\ [][Next]_vars

SpecSmallM == InitSmallM /\ [][Next]_vars

\* add takes any Range<usize>.  The ranges a caller may pass under the
\* contract "disjoint from, and strictly greater than, all previously added
\* ranges": a range may start exactly where the previous one ends.
DisjointAscending(range) == \A p \in added : p.end <= range.start

\* At most MaxAbuttingAdds ranges are added, none of them empty.
AddAbutting ==
    \E range \in Ranges :
        /\ Cardinality(added) < MaxAbuttingAdds
        /\ range.start < range.end
        /\ DisjointAscending(range)
        /\ AddCall(range)

\* A release of a range handed out by allocate and not yet released.
ReleaseOutstanding ==
    \E range \in outstanding :
        /\ ra.panic = NoPanic
        /\ ra' = release(ra, range)
        /\ added' = added
        /\ outstanding' = outstanding \ {range}
        /\ last' = Call("release", 0, range, "ok", NoRange, NoRange)
        /\ UNCHANGED <<dll_vars, bump_vars, kernel_vars>>

NextAbutting == AddAbutting \/ Allocate \/ ReleaseOutstanding

SpecAbutting == Init /\ [][NextAbutting]_vars

\* The calls of test::resource_allocator: ResourceAllocator::<2>, the two
\* ranges added, in this order, and the sizes requested afterwards.
S1_Q == 2
S1_Ranges == <<[start |-> 0, end |-> 10], [start |-> 20, end |-> 30]>>
S1_Sizes == {8, 10, 20, 1}

InitS1 ==
    /\ ra = ResourceAllocator_new(S1_Q, WordBits)
    /\ added = {}
    /\ outstanding = {}
    /\ last = Call("new", 0, NoRange, "ok", NoRange, NoRange)
    /\ DLLIdle /\ BumpIdle /\ KernelIdle

AddS1 ==
    \E i \in 1..Len(S1_Ranges) :
        /\ Cardinality(added) = i - 1
        /\ AddCall(S1_Ranges[i])

\* The allocations follow the two adds; the segment list is kept within the
\* node handles of the model.
AllocateS1 ==
    \E sz \in S1_Sizes :
        /\ Cardinality(added) = Len(S1_Ranges)
        /\ Len(ra.segments) < MaxAddr
        /\ AllocateCall(sz)

NextS1 == AddS1 \/ AllocateS1 \/ ReleaseOutstanding

SpecS1 == InitS1 /\ [][NextS1]_vars

\* ----------------------------------------------------------------- views
\* The segments of the segment list, head to tail.
SegList == [i \in 1..Len(ra.segments) |-> ra.node[ra.segments[i]]]

\* The addresses of a range.
Cells(r) == {x \in Addrs : r.start <= x /\ x < r.end}

\* A segment is free when it is on a freelist.
IsFree(s) == s.freelist_ptr # 0

\* The ranges passed to add that add kept (at least Q long).
Kept == {r \in added : r.end - r.start >= ra.Q}

\* The quanta allocate rounds a request up to.
QSize(sz) == Max(DivCeil(sz, ra.Q), 1)

C2_ExtentTiling ==
    /\ \A i \in 1..Len(SegList) : SegList[i].start < SegList[i].end
    /\ \A i, j \in 1..Len(SegList) : i < j => SegList[i].end <= SegList[j].start
    /\ UNION {Cells(SegList[i]) : i \in 1..Len(SegList)} = UNION {Cells(r) : r \in Kept}

\* A release has coalesced next to segments that a split produced, with a
\* range shorter than Q dropped by add.
C2_Witness ==
    /\ last.op = "release" /\ last.res = "ok"
    /\ Len(SegList) >= 3
    /\ Kept # added
    /\ \E i \in 1..Len(SegList) : IsFree(SegList[i])

\* ------------------------------------------------------------------ C3
\* Nothing is allocated and the free segments are the kept added ranges, one
\* free segment per range.
FullyCoalesced ==
    /\ DOMAIN ra.allocated_segments = {}
    /\ Len(SegList) = Cardinality(Kept)
    /\ \A i \in 1..Len(SegList) : IsFree(SegList[i]) /\ RangeOf(SegList[i]) \in Kept

View(a) ==
    [segs |-> [i \in 1..Len(a.segments) |->
                  [start |-> a.node[a.segments[i]].start,
                   end |-> a.node[a.segments[i]].end,
                   free |-> a.node[a.segments[i]].freelist_ptr # 0]],
     table |-> {<<k, RangeOf(a.node[a.allocated_segments[k]])>> :
                   k \in DOMAIN a.allocated_segments}]

\* C4: in every reachable state, for every n for which allocate(n) succeeds,
\* allocate(n) followed by release of the returned range leaves the segment
\* list and the allocated-table as they were before the allocate.
C4_ReleaseInvertsAllocate ==
    ra.panic = NoPanic =>
        \A n \in Sizes :
            LET r == fast_allocate(ra, n)
            IN  r.res = "ok" =>
                    LET back == release(r.ra, r.range)
                    IN  back.panic = NoPanic /\ View(back) = View(ra)

\* A state with allocations outstanding in which an allocate splits a
\* segment and the release merges the parts again.
C4_Witness ==
    /\ ra.panic = NoPanic
    /\ outstanding # {}
    /\ \E n \in Sizes :
           LET r == fast_allocate(ra, n)
           IN  /\ r.res = "ok"
               /\ Len(r.ra.segments) = Len(ra.segments) + 1
               /\ Len(release(r.ra, r.range).segments) = Len(ra.segments)

\* ------------------------------------------------------------------ C5
\* The freelists (class, position) that hold a pointer to segment node n.
Slots(n) ==
    {<<k, i>> \in (0..(ra.M - 1)) \X (1..MaxAddr) :
        i <= Len(ra.freelists[k]) /\ ra.fnode[ra.freelists[k][i]] = n}

\* Every segment that is not allocated is on exactly one freelist, the one of
\* index min(M-1, floor(log2(floor(s/Q)))).
ClassCorrect ==
    \A i \in 1..Len(ra.segments) :
        LET n == ra.segments[i]
            s == ra.node[n]
        IN  s.start \notin DOMAIN ra.allocated_segments =>
                /\ Cardinality(Slots(n)) = 1
                /\ \A sl \in Slots(n) :
                       sl[1] = Min(ra.M - 1, Log2(size(s) \div ra.Q))

\* C5: for every class count M and quantum Q, after any sequence of
\* operations every free segment of size s is on exactly one freelist, of
\* index min(M-1, floor(log2(floor(s/Q)))): the top class absorbs the larger
\* segments, so placing one never indexes past the last freelist.
C5_FreelistClass ==
    /\ ra.panic = NoPanic => ClassCorrect
    /\ ra.panic # PanicIndex

\* ------------------------------------------------------------------ C6
\* C6 as stated: a successful allocate(size) returns exactly
\* [start, start + qsize*Q), start being the start of the segment it chose.
C6_Original ==
    (last.op = "allocate" /\ last.res = "ok") =>
        /\ last.out.start = last.chosen.start
        /\ last.out.end = last.out.start + QSize(last.size) * ra.Q

\* C6 as amended: a successful allocate(size) returns [start, start + len),
\* start being the start of the segment it chose, with len = qsize*Q when the
\* rest of that segment is at least Q long and otherwise the whole segment,
\* so that qsize*Q <= len < (qsize+1)*Q.
C6_AllocatedLength ==
    (last.op = "allocate" /\ last.res = "ok") =>
        LET want == QSize(last.size) * ra.Q
            len == last.out.end - last.out.start
        IN  /\ last.out.start = last.chosen.start
            /\ last.out.end = IF size(last.chosen) - want >= ra.Q
                              THEN last.out.start + want
                              ELSE last.chosen.end
            /\ want <= len /\ len < want + ra.Q

\* An allocate(0) took one quantum off a longer segment.
C6_Witness ==
    /\ last.op = "allocate" /\ last.res = "ok"
    /\ last.size = 0
    /\ last.out.end - last.out.start = ra.Q
    /\ size(last.chosen) > ra.Q

\* ------------------------------------------------------------------ C7
\* C7: allocate(size) returns Exhausted if and only if no free segment has
\* size >= qsize*Q, and otherwise succeeds.
C7_ExhaustedIffNoFit ==
    [][last'.op = "allocate" =>
          LET fits == \E i \in 1..Len(SegList) :
                          /\ IsFree(SegList[i])
                          /\ size(SegList[i]) >= QSize(last'.size) * ra.Q
          IN  /\ last'.res = "exhausted" <=> ~fits
              /\ last'.res = "ok" <=> fits]_vars

\* ------------------------------------------------------------------ C8
\* C8 as stated: no two neighbours in the segment list are both free.
C8_Original ==
    \A i \in 1..(Len(SegList) - 1) : ~(IsFree(SegList[i]) /\ IsFree(SegList[i + 1]))

\* C8 as amended: no two neighbours in the segment list whose ranges abut
\* (the first ends where the second starts) are both free.
C8_NoAbuttingFreeNeighbours ==
    \A i \in 1..(Len(SegList) - 1) :
        SegList[i].end = SegList[i + 1].start =>
            ~(IsFree(SegList[i]) /\ IsFree(SegList[i + 1]))

\* After a release, abutting neighbours exist, one free and one allocated.
C8_Witness ==
    /\ last.op = "release" /\ last.res = "ok"
    /\ \E i \in 1..(Len(SegList) - 1) :
           /\ SegList[i].end = SegList[i + 1].start
           /\ IsFree(SegList[i]) /\ ~IsFree(SegList[i + 1])

\* ------------------------------------------------------------------ C9
\* C9: release(range) panics whenever range.start is not the start of a
\* range handed out and not yet released, and then leaves the segment list,
\* the freelists and the allocated-table as they were.
C9_BadReleasePanics ==
    [][(last'.op = "release" /\ \A o \in outstanding : o.start # last'.range.start) =>
          /\ last'.res = "panic"
          /\ ra'.panic = PanicRelease
          /\ ra'.segments = ra.segments
          /\ ra'.node = ra.node
          /\ ra'.freelists = ra.freelists
          /\ ra'.fnode = ra.fnode
          /\ ra'.allocated_segments = ra.allocated_segments]_vars

\* A release of a start that is not allocated panicked while other
\* allocations were outstanding.
C9_Witness ==
    /\ last.op = "release" /\ last.res = "panic"
    /\ ra.panic = PanicRelease
    /\ outstanding # {}

\* ----------------------------------------------------------------- C10
\* C10: allocate either succeeds or returns Exhausted, and no call panics
\* except release of a range that is not allocated.
C10_OnlyTwoFailures == ra.panic \in {NoPanic, PanicRelease}

\* ----------------------------------------------------------------- C11
\* C11: ranges added by separate add calls remain separate segments: every
\* segment of the segment list, free or allocated, and every allocation
\* handed out lies inside a single range passed to add, for all ranges that
\* are disjoint and ascending, a range that starts exactly where the previous
\* one ends included.
C11_NoCrossRegionCoalescing ==
    /\ \A i \in 1..Len(SegList) :
           \E r \in added : r.start <= SegList[i].start /\ SegList[i].end <= r.end
    /\ \A x \in outstanding :
           \E r \in added : r.start <= x.start /\ x.end <= r.end

\* ----------------------------------------------------------------- C12
\* The allocator of scenario S1 after add(0..10) and add(20..30).
S1_Added == add(add(ResourceAllocator_new(S1_Q, WordBits), S1_Ranges[1]), S1_Ranges[2])

\* The first allocate of the scenario is an allocate(8).
S1_FirstAllocate8 ==
    /\ last.op = "add" /\ ra = S1_Added
    /\ last'.op = "allocate" /\ last'.size = 8

\* C12 as stated: in scenario S1 the first allocate(8) returns Ok(0..8).
C12_Original ==
    [][S1_FirstAllocate8 =>
          last'.res = "ok" /\ last'.out = [start |-> 0, end |-> 8]]_vars

\* C12 as amended: in scenario S1 the first allocate(8) returns Ok(20..28),
\* taken from the range added last.
C12_FirstAllocateFromLastAdded ==
    [][S1_FirstAllocate8 =>
          last'.res = "ok" /\ last'.out = [start |-> 20, end |-> 28]]_vars

\* The first allocate(8) of the scenario has returned.
C12_Witness ==
    /\ last.op = "allocate" /\ last.size = 8 /\ last.res = "ok"
    /\ ra = fast_allocate(S1_Added, 8).ra
    /\ Cardinality(outstanding) = 1

\* ------------------------------------- DoublyLinkedList, node by node
\* The list as linked.rs builds it: head (an owning Box, 0: None), tail (a
\* NodePtr, 0: None) and the nodes on the heap, each with its value, its next
\* (an owning Box) and its prev (a NodePtr).  A node's address is its handle:
\* a Box does not move when its owner changes.  heap is the set of the
\* addresses that hold a node.
NodeIds == 1..MaxNodes
Values == 1..MaxValue

NoNode == [value |-> 0, next |-> 0, prev |-> 0]

DoublyLinkedListNode_new(value) == [value |-> value, next |-> 0, prev |-> 0]

DoublyLinkedList_new ==
    [head |-> 0, tail |-> 0, node |-> [p \in NodeIds |-> NoNode], heap |-> {}]

\* Box::new_in(DoublyLinkedListNode::new(value)): the allocator places the
\* node at an address p that holds no node.
new_node(l, p, value) ==
    [l EXCEPT !.node[p] = DoublyLinkedListNode_new(value), !.heap = @ \cup {p}]

RECURSIVE drop_chain(_, _)
\* Dropping an Option<Box<node>>: the node and the nodes its next owns are
\* freed.
drop_chain(l, n) ==
    IF n = 0 \/ n \notin l.heap THEN l
    ELSE drop_chain([l EXCEPT !.node[n] = NoNode, !.heap = @ \ {n}], l.node[n].next)

DoublyLinkedList_append(l, p, value) ==
    LET l1 == new_node(l, p, value)
    IN  IF l.tail # 0
        THEN LET l2 == drop_chain(l1, l1.node[l.tail].next)
             IN  [l2 EXCEPT !.node[p].prev = l.tail,
                            !.node[l.tail].next = p,
                            !.tail = p]
        ELSE [l1 EXCEPT !.head = p, !.tail = p]

\* insert_front leaving the old head's prev as it was.
DoublyLinkedList_insert_front_no_prev(l, p, value) ==
    LET l1 == new_node(l, p, value)
    IN  IF l.head # 0
        THEN [l1 EXCEPT !.node[p].next = l.head, !.head = p]
        ELSE [l1 EXCEPT !.tail = p, !.head = p]

DoublyLinkedList_insert_front(l, p, value) ==
    LET l1 == new_node(l, p, value)
    IN  IF l.head # 0
        THEN [l1 EXCEPT !.node[l.head].prev = p,
                        !.node[p].next = l.head,
                        !.head = p]
        ELSE [l1 EXCEPT !.tail = p, !.head = p]

\* insert_after that does not hand the new node to node.next.
DoublyLinkedList_insert_after_unlinked(l, n, p, value) ==
    LET next == l.node[n].next
        l1 == new_node(l, p, value)
        l2 == [l1 EXCEPT !.node[p].next = next, !.node[n].next = 0]
        l3 == IF next # 0 THEN [l2 EXCEPT !.node[next].prev = p]
              ELSE [l2 EXCEPT !.tail = p]
    IN  [l3 EXCEPT !.node[p].prev = n]

DoublyLinkedList_insert_after(l, n, p, value) ==
    LET next == l.node[n].next
        l1 == new_node(l, p, value)
        l2 == [l1 EXCEPT !.node[p].next = next, !.node[n].next = 0]
        l3 == IF next # 0 THEN [l2 EXCEPT !.node[next].prev = p]
              ELSE [l2 EXCEPT !.tail = p]
    IN  [l3 EXCEPT !.node[p].prev = n, !.node[n].next = p]

\* The result of remove and pop_front: the list after the call, the value
\* returned, and res: "ok", "err" (pop_front of an empty list) or "panic"
\* (unwrap on None).
Removed(l, value, res) == [list |-> l, value |-> value, res |-> res]

\* remove taking the owner to be the list's head whatever node.prev is.
DoublyLinkedList_remove_head_owner(l, n) ==
    LET prev == l.node[n].prev
        next == l.node[n].next
        owned == l.head
    IN  IF owned = 0 THEN Removed(l, 0, "panic")
        ELSE LET l1 == [l EXCEPT !.head = 0]
                 l2 == IF next # 0 THEN [l1 EXCEPT !.node[next].prev = prev,
                                                   !.node[n].prev = 0]
                       ELSE [l1 EXCEPT !.tail = prev]
                 l3 == [l2 EXCEPT !.head = next, !.node[n].next = 0]
             IN  Removed(drop_chain(l3, owned), l.node[owned].value, "ok")

DoublyLinkedList_remove(l, n) ==
    LET prev == l.node[n].prev
        next == l.node[n].next
        \* the Box that owner holds: prev.next, or the list's head
        owned == IF prev # 0 THEN l.node[prev].next ELSE l.head
    IN  IF owned = 0 THEN Removed(l, 0, "panic")
        ELSE LET \* owner.take()
                 l1 == IF prev # 0 THEN [l EXCEPT !.node[prev].next = 0]
                       ELSE [l EXCEPT !.head = 0]
                 l2 == IF next # 0 THEN [l1 EXCEPT !.node[next].prev = prev,
                                                   !.node[n].prev = 0]
                       ELSE [l1 EXCEPT !.tail = prev]
                 \* *owner = node.next.take()
                 l3 == IF prev # 0 THEN [l2 EXCEPT !.node[prev].next = next,
                                                   !.node[n].next = 0]
                       ELSE [l2 EXCEPT !.head = next, !.node[n].next = 0]
             \* owned_node.value is moved out and the Box is dropped
             IN  Removed(drop_chain(l3, owned), l.node[owned].value, "ok")

DoublyLinkedList_pop_front(l) ==
    IF l.head = 0 THEN Removed(l, 0, "err") ELSE DoublyLinkedList_remove(l, l.head)

RECURSIVE Iter_next(_, _, _)
\* The values Iter yields from node n on, following next.  A walk of more
\* than MaxNodes + 1 nodes is cut.
Iter_next(l, n, fuel) ==
    IF n = 0 \/ fuel = 0 THEN <<>>
    ELSE <<l.node[n].value>> \o Iter_next(l, l.node[n].next, fuel - 1)

iter(l) == Iter_next(l, l.head, MaxNodes + 1)

\* --------------------------------------------------- calls on the list
\* A list call: the operation, the handle it was given or returned, the
\* value it was given or returned, the position in the reference sequence it
\* acted at, and how it ended.
ListCall(op, h, value, pos, res) ==
    [op |-> op, h |-> h, value |-> value, pos |-> pos, res |-> res]

\* The reference sequence without its i-th element.
Without(s, i) == SubSeq(s, 1, i - 1) \o SubSeq(s, i + 1, Len(s))

\* The reference sequence with x put after its i-th element.
PutAfter(s, i, x) == SubSeq(s, 1, i) \o <<x>> \o SubSeq(s, i + 1, Len(s))

InitList ==
    /\ dl = DoublyLinkedList_new
    /\ ref = <<>>
    /\ dlast = ListCall("new", 0, 0, 0, "ok")
    /\ RAIdle /\ BumpIdle /\ KernelIdle

ListAppend ==
    \E value \in Values, p \in NodeIds \ dl.heap :
        /\ dlast.res # "panic"
        /\ dl' = DoublyLinkedList_append(dl, p, value)
        /\ ref' = Append(ref, [h |-> p, v |-> value])
        /\ dlast' = ListCall("append", p, value, Len(ref) + 1, "ok")
        /\ UNCHANGED <<ra_vars, bump_vars, kernel_vars>>

ListInsertFront ==
    \E value \in Values, p \in NodeIds \ dl.heap :
        /\ dlast.res # "panic"
        /\ dl' = DoublyLinkedList_insert_front(dl, p, value)
        /\ ref' = <<[h |-> p, v |-> value]>> \o ref
        /\ dlast' = ListCall("insert_front", p, value, 1, "ok")
        /\ UNCHANGED <<ra_vars, bump_vars, kernel_vars>>

\* insert_after on a handle the caller holds: one returned by an insertion
\* whose node has not been removed since.
ListInsertAfter ==
    \E i \in 1..Len(ref), value \in Values, p \in NodeIds \ dl.heap :
        /\ dlast.res # "panic"
        /\ dl' = DoublyLinkedList_insert_after(dl, ref[i].h, p, value)
        /\ ref' = PutAfter(ref, i, [h |-> p, v |-> value])
        /\ dlast' = ListCall("insert_after", p, value, i + 1, "ok")
        /\ UNCHANGED <<ra_vars, bump_vars, kernel_vars>>

ListPopFront ==
    LET r == DoublyLinkedList_pop_front(dl)
    IN  /\ dlast.res # "panic"
        /\ dl' = r.list
        /\ ref' = IF r.res = "ok" THEN Tail(ref) ELSE ref
        /\ dlast' = ListCall("pop_front", dl.head, r.value, 1, r.res)
        /\ UNCHANGED <<ra_vars, bump_vars, kernel_vars>>

\* remove on a handle the caller holds.
ListRemove ==
    \E i \in 1..Len(ref) :
        LET r == DoublyLinkedList_remove(dl, ref[i].h)
        IN  /\ dlast.res # "panic"
            /\ dl' = r.list
            /\ ref' = IF r.res = "ok" THEN Without(ref, i) ELSE ref
            /\ dlast' = ListCall("remove", ref[i].h, r.value, i, r.res)
            /\ UNCHANGED <<ra_vars, bump_vars, kernel_vars>>

NextList ==
    ListAppend \/ ListInsertFront \/ ListInsertAfter \/ ListPopFront \/ ListRemove

SpecList == InitList /\ [][NextList]_vars

RECURSIVE FromHead(_, _, _)
\* The handles traced by next from node n.
FromHead(l, n, fuel) ==
    IF n = 0 \/ fuel = 0 THEN <<>>
    ELSE <<n>> \o FromHead(l, l.node[n].next, fuel - 1)

RECURSIVE FromTail(_, _, _)
\* The handles traced by prev from node n.
FromTail(l, n, fuel) ==
    IF n = 0 \/ fuel = 0 THEN <<>>
    ELSE <<n>> \o FromTail(l, l.node[n].prev, fuel - 1)

Forward == FromHead(dl, dl.head, MaxNodes + 1)
Backward == FromTail(dl, dl.tail, MaxNodes + 1)

Reverse(s) == [i \in 1..Len(s) |-> s[Len(s) + 1 - i]]

\* The values of the reference sequence.
RefValues == [i \in 1..Len(ref) |-> ref[i].v]

\* ----------------------------------------------------------------- C13
\* C13: after any sequence of append, insert_front, insert_after, pop_front
\* and remove on handles owned by the list, head.prev is none, tail.next is
\* none, every node's next.prev points back to it, the sequence traced by
\* next from head is the reverse of the sequence traced by prev from tail,
\* and head is absent iff tail is absent iff the list is empty.  Moreover no
\* call panics and the heap holds exactly the nodes of the list.
C13_StructuralInvariants ==
    /\ dlast.res # "panic"
    /\ dl.head # 0 => dl.node[dl.head].prev = 0
    /\ dl.tail # 0 => dl.node[dl.tail].next = 0
    /\ \A i \in 1..Len(Forward) :
           LET n == Forward[i]
           IN  dl.node[n].next # 0 => dl.node[dl.node[n].next].prev = n
    /\ Forward = Reverse(Backward)
    /\ (dl.head = 0) = (dl.tail = 0)
    /\ (dl.head = 0) = (ref = <<>>)
    /\ dl.heap = {Forward[i] : i \in 1..Len(Forward)}

\* A node between two others has just been removed.
C13_Witness ==
    /\ dlast.op = "remove" /\ dlast.res = "ok"
    /\ 1 < dlast.pos /\ dlast.pos <= Len(ref)

\* ----------------------------------------------------------------- C14
\* C14: after any sequence of operations iter() yields exactly the reference
\* sequence, on which append adds at the end, insert_front at the start,
\* insert_after(n, v) right after n's element, remove(n) deletes n's element
\* and pop_front removes the first element; and pop_front returns that first
\* element, or Err on the empty list.
C14_BehavesAsSequence ==
    [][/\ iter(dl') = RefValues'
       /\ dlast'.op = "pop_front" =>
              IF ref = <<>> THEN dlast'.res = "err" /\ ref' = <<>>
              ELSE dlast'.res = "ok" /\ dlast'.value = ref[1].v]_vars

\* An insert_after has put a value between two others, as the second
\* insert_after of scenario S4 does.
C14_Witness ==
    /\ dlast.op = "insert_after" /\ dlast.pos = 2
    /\ Len(ref) = 3
    /\ iter(dl) = RefValues /\ RefValues[1] # RefValues[2]

\* ----------------------------------------------------------------- C15
\* Every handle the caller holds designates the node at its place of the
\* list, holding the value it was inserted with.
HandlesDesignate ==
    /\ Len(Forward) = Len(ref)
    /\ \A i \in 1..Len(ref) :
           Forward[i] = ref[i].h /\ dl.node[ref[i].h].value = ref[i].v

\* C15: a handle returned by append, insert_front or insert_after keeps
\* designating the same element, with the value it was inserted with, across
\* insertions and removals of other nodes, until that node is removed;
\* remove(handle) returns exactly that value and removes exactly that
\* element.
C15_HandleStability ==
    [][/\ HandlesDesignate'
       /\ \A i \in 1..Len(ref) :
              (dlast'.op = "remove" /\ dlast'.pos = i) =>
                  /\ dlast'.res = "ok"
                  /\ dlast'.value = ref[i].v
                  /\ FromHead(dl', dl'.head, MaxNodes + 1) =
                         SelectSeq(Forward, LAMBDA x : x # ref[i].h)
                  /\ \A j \in 1..Len(ref) :
                         j # i => dl'.node[ref[j].h].value = ref[j].v]_vars

\* The tail has been removed by its handle and two handles remain, the value
\* returned differing from those that remain.
C15_Witness ==
    /\ dlast.op = "remove" /\ dlast.res = "ok"
    /\ dlast.pos = Len(ref) + 1
    /\ Len(ref) = 2
    /\ \A i \in 1..Len(ref) : ref[i].v # dlast.value

\* ------------------------------------------------------- bit patterns
\* A machine word as the set of the positions of its one bits; usize and u64
\* are WordBits wide.  ToBits and ToNat convert numbers below 2^31.
ToBits(n) == {i \in 0..30 : (n \div (2 ^ i)) % 2 = 1}

RECURSIVE ToNat(_)
ToNat(b) == IF b = {} THEN 0
            ELSE LET i == CHOOSE x \in b : TRUE IN (2 ^ i) + ToNat(b \ {i})

\* a & b
BitAnd(a, b) == a \cap b

\* !a
BitNot(a) == (0..(WordBits - 1)) \ a

\* --------------------------------------------------------- BumpAllocator
\* The three bump allocators of the repository, by file.
MutBump == "src/memory/allocator/bump_allocator.rs"
SosBump == "sos/src/memory/allocator/bump_allocator.rs"
OldBump == "sos/src/memory/allocator.rs"
BumpImpls == {MutBump, SosBump, OldBump}

HeapStarts == 1..MaxHeapStart
\* Layout: align is a power of two.
Aligns == {2 ^ k : k \in 0..MaxAlignLog2}
LayoutSizes == 0..HeapSize

\* (address + align - 1) & !(align - 1)
align_up(address, align) ==
    ToNat(BitAnd(ToBits(address + align - 1), BitNot(ToBits(align - 1))))

BumpAllocator_new(impl, start, sz) ==
    [impl |-> impl, heap_start |-> start, heap_size |-> sz, next |-> start,
     allocations |-> 0]

upper_bound(b) == b.heap_start + b.heap_size

\* The result of an alloc: the allocator after it, res "ok" with the pointer
\* returned, or "err" (AllocError, a null pointer).
Allocated(b, res, ptr) == [b |-> b, res |-> res, ptr |-> ptr]

\* MutAllocator::allocate for BumpAllocator (src/memory/allocator)
MutAllocator_allocate(b, sz, align) ==
    LET requested == align_up(b.next, align)
        next == requested + sz
    IN  IF next > upper_bound(b) THEN Allocated(b, "err", 0)
        ELSE Allocated([b EXCEPT !.next = next, !.allocations = @ + 1],
                       "ok", requested)

\* BumpAllocator::alloc (sos/src/memory/allocator/bump_allocator.rs)
BumpAllocator_alloc(b, sz, align) ==
    LET requested == align_up(b.next, align)
        next == requested + sz
    IN  IF next >= upper_bound(b) THEN Allocated(b, "err", 0)
        ELSE Allocated([b EXCEPT !.next = next, !.allocations = @ + 1],
                       "ok", requested)

\* GlobalAlloc::alloc for Locked<BumpAllocator> (sos/src/memory/allocator.rs)
GlobalAlloc_alloc(b, sz, align) ==
    LET requested == align_up(b.next, align)
        next == requested + sz
    IN  IF next >= upper_bound(b) THEN Allocated(b, "err", 0)
        ELSE Allocated([b EXCEPT !.next = next, !.allocations = @ + 1],
                       "ok", next)

\* alloc of the allocator's own file
alloc(b, sz, align) ==
    CASE b.impl = MutBump -> MutAllocator_allocate(b, sz, align)
      [] b.impl = SosBump -> BumpAllocator_alloc(b, sz, align)
      [] b.impl = OldBump -> GlobalAlloc_alloc(b, sz, align)

\* dealloc, the same in the three files; it ignores its arguments.
dealloc(b) ==
    LET allocations == b.allocations - 1
    IN  [b EXCEPT !.allocations = allocations,
                  !.next = IF allocations = 0 THEN b.heap_start ELSE @]

\* ------------------------------------------- calls on the bump allocator
\* A call: the operation, the layout, how it ended and the pointer returned.
BumpCall(op, sz, align, res, ptr) ==
    [op |-> op, size |-> sz, align |-> align, res |-> res, ptr |-> ptr]

\* A block handed out: the pointer returned and the layout's size.
Block(ptr, sz) == [ptr |-> ptr, size |-> sz]

InitBump ==
    /\ \E impl \in BumpImpls, start \in HeapStarts :
           bump = BumpAllocator_new(impl, start, HeapSize)
    /\ live = <<>>
    /\ blast = BumpCall("new", 0, 1, "ok", 0)
    /\ lock = Idle /\ pc = Idle
    /\ RAIdle /\ DLLIdle /\ KernelIdle

BumpAlloc ==
    \E sz \in LayoutSizes, align \in Aligns :
        LET r == alloc(bump, sz, align)
        IN  /\ Len(live) < MaxLive
            /\ bump' = r.b
            /\ live' = IF r.res = "ok" THEN Append(live, Block(r.ptr, sz)) ELSE live
            /\ blast' = BumpCall("alloc", sz, align, r.res, r.ptr)
            /\ UNCHANGED <<lock, pc, ra_vars, dll_vars, kernel_vars>>

\* dealloc of a block handed out and not yet deallocated.
BumpDealloc ==
    \E i \in 1..Len(live) :
        /\ bump' = dealloc(bump)
        /\ live' = Without(live, i)
        /\ blast' = BumpCall("dealloc", live[i].size, 1, "ok", live[i].ptr)
        /\ UNCHANGED <<lock, pc, ra_vars, dll_vars, kernel_vars>>

NextBump == BumpAlloc \/ BumpDealloc

SpecBump == InitBump /\ [][NextBump]_vars

\* ----------------------------------------------------------------- C16
\* C16: alloc(size, align) fails if and only if
\* align_up(next, align) + size > heap_start + heap_size, so that an
\* allocation that ends exactly at the heap's upper bound succeeds.
C16_FailsIffPastUpperBound ==
    [][blast'.op = "alloc" =>
          (blast'.res = "err" <=>
               align_up(bump.next, blast'.align) + blast'.size > upper_bound(bump))]_vars

\* ----------------------------------------------------------------- C17
\* C17: alloc(size, align), when it succeeds, returns req =
\* align_up(next, align), the first byte of the block [req, req + size), a
\* multiple of align and not below the previous next; it sets next to
\* req + size and increases allocations by exactly one.
C17_ReturnsAlignedStart ==
    [][(blast'.op = "alloc" /\ blast'.res = "ok") =>
          LET req == align_up(bump.next, blast'.align)
          IN  /\ blast'.ptr = req
              /\ req % blast'.align = 0
              /\ req >= bump.next
              /\ bump'.next = req + blast'.size
              /\ bump'.allocations = bump.allocations + 1]_vars

\* ----------------------------------------------------------------- C18
\* A layout fits the heap when the block placed at heap_start aligned up ends
\* at or below the upper bound.
Fits(b, sz, align) == align_up(b.heap_start, align) + sz <= upper_bound(b)

\* C18: whenever the live count is zero next is heap_start, and the alloc
\* that follows then returns heap_start aligned up to the layout's align,
\* for every layout that fits the heap: allocate-then-deallocate cycles all
\* succeed and return the same address.
C18_ResetOnEmpty ==
    [][/\ bump'.allocations = 0 => bump'.next = bump'.heap_start
       /\ (bump.allocations = 0 /\ blast'.op = "alloc"
               /\ Fits(bump, blast'.size, blast'.align)) =>
              /\ blast'.res = "ok"
              /\ blast'.ptr = align_up(bump.heap_start, blast'.align)]_vars

\* ------------------------------------------------ Locked<BumpAllocator>
\* The callers of the locked allocator.  A call of alloc or dealloc through
\* Locked takes the spin::Mutex (lock() spins until it has it), runs the
\* allocator's method on the guarded value and drops the guard.
Procs == 1..MaxProcs
LockedSizes == 1..MaxLockedSize

\* Where a caller is: "idle" (no call under way), "lock" (in lock(),
\* spinning), "body" (holding the guard, before the method runs), "unlock"
\* (the method has run, the guard is about to be dropped); with the call's
\* operation, layout and, once the method has run, its result.
At(at, op, sz, align, res, ptr) ==
    [at |-> at, op |-> op, size |-> sz, align |-> align, res |-> res, ptr |-> ptr]

NoCall == At("idle", "none", 0, 1, "ok", 0)

\* The blocks requested by calls of alloc that have not returned yet.
Pending == {p \in Procs : pc[p].at # "idle" /\ pc[p].op = "alloc"}

InitLocked ==
    /\ \E impl \in BumpImpls, start \in HeapStarts :
           bump = BumpAllocator_new(impl, start, HeapSize)
    /\ live = <<>>
    /\ blast = BumpCall("new", 0, 1, "ok", 0)
    /\ lock = 0
    /\ pc = [p \in Procs |-> NoCall]
    /\ RAIdle /\ DLLIdle /\ KernelIdle

\* A caller enters alloc(layout).
LockedCallAlloc(p) ==
    \E sz \in LockedSizes, align \in Aligns :
        /\ pc[p].at = "idle"
        /\ Len(live) + Cardinality(Pending) < MaxLive
        /\ pc' = [pc EXCEPT ![p] = At("lock", "alloc", sz, align, "ok", 0)]
        /\ UNCHANGED <<bump, live, blast, lock, ra_vars, dll_vars, kernel_vars>>

\* A caller enters dealloc(ptr, layout) with a block it was handed; the block
\* is no longer live.
LockedCallDealloc(p) ==
    \E i \in 1..Len(live) :
        /\ pc[p].at = "idle"
        /\ pc' = [pc EXCEPT ![p] = At("lock", "dealloc", live[i].size, 1, "ok",
                                      live[i].ptr)]
        /\ live' = Without(live, i)
        /\ UNCHANGED <<bump, blast, lock, ra_vars, dll_vars, kernel_vars>>

\* lock() finds the mutex free and takes it.
Acquire(p) ==
    /\ pc[p].at = "lock"
    /\ lock = 0
    /\ lock' = p
    /\ pc' = [pc EXCEPT ![p].at = "body"]
    /\ UNCHANGED <<bump, live, blast, ra_vars, dll_vars, kernel_vars>>

\* What the allocator's method makes of the allocator for the call c.
Effect(b, c) == IF c.op = "alloc" THEN alloc(b, c.size, c.align).b ELSE dealloc(b)

\* The allocator's method runs on the guarded value.
Body(p) ==
    /\ pc[p].at = "body"
    /\ bump' = Effect(bump, pc[p])
    /\ pc' = [pc EXCEPT ![p] =
                 IF pc[p].op = "alloc"
                 THEN LET r == alloc(bump, pc[p].size, pc[p].align)
                      IN  At("unlock", "alloc", pc[p].size, pc[p].align, r.res, r.ptr)
                 ELSE [pc[p] EXCEPT !.at = "unlock"]]
    /\ UNCHANGED <<live, blast, lock, ra_vars, dll_vars, kernel_vars>>

\* The guard is dropped and the call returns; a block returned by alloc is
\* live from here on.
Unlock(p) ==
    /\ pc[p].at = "unlock"
    /\ lock' = 0
    /\ pc' = [pc EXCEPT ![p] = NoCall]
    /\ live' = IF pc[p].op = "alloc" /\ pc[p].res = "ok"
               THEN Append(live, Block(pc[p].ptr, pc[p].size)) ELSE live
    /\ blast' = BumpCall(pc[p].op, pc[p].size, pc[p].align, pc[p].res, pc[p].ptr)
    /\ UNCHANGED <<bump, ra_vars, dll_vars, kernel_vars>>

NextLocked ==
    \E p \in Procs :
        LockedCallAlloc(p) \/ LockedCallDealloc(p) \/ Acquire(p) \/ Body(p) \/ Unlock(p)

SpecLocked == InitLocked /\ [][NextLocked]_vars

\* ----------------------------------------------------------------- C19
\* The bytes of a block.
Bytes(blk) == blk.ptr..(blk.ptr + blk.size - 1)

\* The live blocks are pairwise disjoint and lie inside the heap.
LiveDisjointInHeap ==
    \A i \in 1..Len(live) :
        /\ bump.heap_start <= live[i].ptr
        /\ live[i].ptr + live[i].size <= upper_bound(bump)
        /\ \A j \in 1..Len(live) : i # j => Bytes(live[i]) \cap Bytes(live[j]) = {}

\* C19: for any interleaving of alloc and dealloc calls made by concurrent
\* callers through the spinlock wrapper, each dealloc matching an earlier
\* alloc, every call takes effect atomically in lock-acquisition order (the
\* allocator changes only in a step of the caller holding the lock, by that
\* call's whole effect, and at most one caller is past lock()), and the live
\* blocks are pairwise disjoint and lie inside
\* [heap_start, heap_start + heap_size).
C19_LockedSerialized ==
    [][/\ LiveDisjointInHeap'
       /\ Cardinality({p \in Procs : pc'[p].at \in {"body", "unlock"}}) <= 1
       /\ bump' # bump =>
              \E p \in Procs :
                  /\ lock = p /\ pc[p].at = "body" /\ pc'[p].at = "unlock"
                  /\ bump' = Effect(bump, pc[p])]_vars


\* ------------------------------------------------------------ page tables
\* u64 and usize values are sets of one-bit positions (see ToBits).
\* a >> k
Shr(a, k) == {i - k : i \in {j \in a : j >= k}}

\* a << k, truncated to the word
Shl(a, k) == {i + k : i \in {j \in a : j + k < WordBits}}

\* a | b
BitOr(a, b) == a \cup b

\* a + b, wrapping at the word (no reachable sum carries out of it)
RECURSIVE WordAdd(_, _)
WordAdd(a, b) == IF b = {} THEN a
                 ELSE WordAdd((a \cup b) \ (a \cap b), Shl(a \cap b, 1))

\* The value of a hexadecimal literal, most significant digit first.
Hex(digits) ==
    UNION {Shl(ToBits(digits[k]), 4 * (Len(digits) - k)) : k \in 1..Len(digits)}

\* PageTableEntry::pointer: self.0 & 0x000F_FFFF_FFFF_FF000
PageTableEntry_pointer(entry) ==
    BitAnd(entry, Hex(<<15, 15, 15, 15, 15, 15, 15, 15, 15, 15, 15, 0, 0, 0>>))

\* PageTableEntry::present: self.0 & 0x1 != 0
PageTableEntry_present(entry) == BitAnd(entry, ToBits(1)) # {}

\* physical_to_virtual: address + PHYSICAL_MEMORY_OFFSET
physical_to_virtual(m, address) == WordAdd(address, m.offset)

\* The entry at table[index]. Page-table memory is kept sparsely: an entry
\* nobody wrote is zero, the frames of the frame source being zeroed.
Index(m, table, index) ==
    IF <<table, index>> \in DOMAIN m.entry THEN m.entry[<<table, index>>]
    ELSE {}

PageNotPresent == "PageNotPresent"

\* PageTableEntry::deref without its test of the present bit.
PageTableEntry_deref_unchecked(m, entry) ==
    [ok |-> TRUE, table |-> physical_to_virtual(m, PageTableEntry_pointer(entry))]

\* The inherent PageTableEntry::deref, which `.deref()?` resolves to: an
\* error for an entry that is not present, the pointed table otherwise.
PageTableEntry_deref(m, entry) ==
    IF ~PageTableEntry_present(entry) THEN [ok |-> FALSE, table |-> {}]
    ELSE [ok |-> TRUE,
          table |-> physical_to_virtual(m, PageTableEntry_pointer(entry))]

\* l4::PageTable::get: the table at physical_to_virtual(cr3 & !0xFFF)
PageTable_get(m) ==
    physical_to_virtual(m, BitAnd(m.cr3, BitNot(Hex(<<15, 15, 15>>))))

\* (address >> 9 * level + 12) & 0x1FF, level 3 for L4 down to 0 for L1
level_index(address, level) ==
    ToNat(BitAnd(Shr(address, 9 * level + 12), Hex(<<1, 15, 15>>)))

\* translate_virtual_address. `read` lists the tables whose entries were
\* loaded and `derefs` the addresses made into references by deref().
translate_virtual_address(m, address) ==
    LET l4_table == PageTable_get(m)
        l4_entry == Index(m, l4_table, level_index(address, 3))
        l3 == PageTableEntry_deref(m, l4_entry)
        l3_entry == Index(m, l3.table, level_index(address, 2))
        l2 == PageTableEntry_deref(m, l3_entry)
        l2_entry == Index(m, l2.table, level_index(address, 1))
        l1 == PageTableEntry_deref(m, l2_entry)
        l1_entry == Index(m, l1.table, level_index(address, 0))
        _memory_block == PageTableEntry_deref(m, l1_entry)
        Failed(read, derefs) ==
            [ok |-> FALSE, err |-> PageNotPresent, value |-> {},
             read |-> read, derefs |-> derefs, panic |-> FALSE]
    IN  IF ~l3.ok THEN Failed({l4_table}, {})
        ELSE IF ~l2.ok THEN Failed({l4_table, l3.table}, {l3.table})
        ELSE IF ~l1.ok
            THEN Failed({l4_table, l3.table, l2.table}, {l3.table, l2.table})
        ELSE IF ~_memory_block.ok
            THEN Failed({l4_table, l3.table, l2.table, l1.table},
                        {l3.table, l2.table, l1.table})
        ELSE [ok |-> TRUE, err |-> "",
              value |-> WordAdd(PageTableEntry_pointer(l1_entry),
                                BitAnd(address, Hex(<<15, 15, 15>>))),
              read |-> {l4_table, l3.table, l2.table, l1.table},
              derefs |-> {l3.table, l2.table, l1.table,
                          _memory_block.table},
              panic |-> FALSE]

\* The k-th frame of the frame source: page-aligned, from 0x100000 upwards.
next_frame(k) == WordAdd(Hex(<<1, 0, 0, 0, 0, 0>>), Shl(ToBits(k), 12))

\* The frames the thunk of the page-table specifications returns, in order.
FrameSource == [k \in 1..(MaxFrames + 4) |-> next_frame(k - 1)]

\* deref_mut_or_map that maps a new frame whether or not the entry is
\* present.
deref_mut_or_map_always(s, table, index) ==
    LET entry == BitOr(s.source[s.handed + 1], Hex(<<6, 3>>))
    IN  IF s.panic THEN s
        ELSE IF s.handed >= Len(s.source) THEN [s EXCEPT !.panic = TRUE]
        ELSE [s EXCEPT !.m.entry = map_insert(@, <<table, index>>, entry),
                       !.handed = @ + 1,
                       !.called = TRUE,
                       !.table = physical_to_virtual(s.m, PageTableEntry_pointer(entry))]

\* deref_mut_or_map writing the frame without the flags 0x63.
deref_mut_or_map_no_flags(s, table, index) ==
    LET old == Index(s.m, table, index)
        entry == IF PageTableEntry_present(old) THEN old
                 ELSE s.source[s.handed + 1]
    IN  IF s.panic THEN s
        ELSE IF PageTableEntry_present(old)
        THEN [s EXCEPT !.called = FALSE,
                       !.table = physical_to_virtual(s.m, PageTableEntry_pointer(old))]
        ELSE IF s.handed >= Len(s.source) THEN [s EXCEPT !.panic = TRUE]
        ELSE [s EXCEPT !.m.entry = map_insert(@, <<table, index>>, entry),
                       !.handed = @ + 1,
                       !.called = TRUE,
                       !.table = physical_to_virtual(s.m, PageTableEntry_pointer(entry))]

\* PageTableEntry::deref_mut_or_map on table[index]: an entry that is not
\* present becomes next_frame() | 0x63; then the pointed table. The thunk
\* next_frame returns the frames of `source` in order, `handed` counts its
\* calls, `called` tells whether this call made one, and `panic` that the
\* thunk panicked, having no frame left.
deref_mut_or_map(s, table, index) ==
    LET old == Index(s.m, table, index)
        entry == IF PageTableEntry_present(old) THEN old
                 ELSE BitOr(s.source[s.handed + 1], Hex(<<6, 3>>))
    IN  IF s.panic THEN s
        ELSE IF PageTableEntry_present(old)
        THEN [s EXCEPT !.called = FALSE,
                       !.table = physical_to_virtual(s.m, PageTableEntry_pointer(old))]
        ELSE IF s.handed >= Len(s.source) THEN [s EXCEPT !.panic = TRUE]
        ELSE [s EXCEPT !.m.entry = map_insert(@, <<table, index>>, entry),
                       !.handed = @ + 1,
                       !.called = TRUE,
                       !.table = physical_to_virtual(s.m, PageTableEntry_pointer(entry))]

\* l4::PageTable::map_if_unmapped
map_if_unmapped(m, n, source, address) ==
    LET s4 == [m |-> m, handed |-> n, source |-> source, called |-> FALSE,
               panic |-> FALSE, table |-> PageTable_get(m)]
        s3 == deref_mut_or_map(s4, s4.table, level_index(address, 3))
        s2 == deref_mut_or_map(s3, s3.table, level_index(address, 2))
        s1 == deref_mut_or_map(s2, s2.table, level_index(address, 1))
    IN  deref_mut_or_map(s1, s1.table, level_index(address, 0))

\* Virtual addresses of the calls: the two of the tests (0xb8000 and
\* 0xdeadbeef), neighbours of the first that part from it at each level,
\* and a higher-half address.
VirtualAddresses ==
    {Hex(<<11, 8, 0, 0, 0>>),
     Hex(<<13, 14, 10, 13, 11, 14, 14, 15>>),
     Hex(<<11, 8, 15, 15, 15>>),
     Hex(<<11, 9, 1, 2, 3>>),
     Hex(<<2, 11, 8, 0, 0, 0>>),
     Hex(<<4, 0, 0, 11, 8, 0, 0, 0>>),
     Hex(<<8, 0, 0, 0, 0, 11, 8, 0, 0, 0>>),
     Hex(<<15, 15, 15, 15, 8, 0, 0, 0, 0, 0, 0, 11, 8, 4, 5, 6>>)}

\* Boot: CR3 holds the L4 frame (possibly with its two cache flags), the
\* bootloader chose PHYSICAL_MEMORY_OFFSET, and nothing is mapped.
InitPageTable ==
    /\ RAIdle /\ DLLIdle /\ BumpIdle /\ TLBIdle /\ PAIdle /\ IRQIdle
    /\ \E cr3 \in {Hex(<<1, 0, 0, 0>>), Hex(<<1, 0, 1, 8>>)},
          offset \in {{}, Hex(<<1, 0, 0, 0, 0, 0, 0, 0, 0, 0, 0>>)} :
          mem = [cr3 |-> cr3, offset |-> offset, entry |-> <<>>]
    /\ handed = 0
    /\ tlast = [op |-> "boot"]
    /\ supplied = <<>>

MapCall(address) ==
    LET s == map_if_unmapped(mem, handed, FrameSource, address)
    IN  /\ s.handed <= MaxFrames
        /\ mem' = s.m
        /\ handed' = s.handed
        /\ tlast' = [op |-> "map_if_unmapped", address |-> address]
        /\ supplied' = IF s.called
                       THEN map_insert(supplied, Shr(address, 12),
                                       next_frame(handed' - 1))
                       ELSE supplied
        /\ UNCHANGED not_pt_vars

MapIfUnmapped == \E address \in VirtualAddresses : MapCall(address)

Translate ==
    \E address \in VirtualAddresses :
        /\ tlast' = [op |-> "translate_virtual_address", address |-> address,
                     res |-> translate_virtual_address(mem, address)]
        /\ UNCHANGED <<mem, handed, supplied, not_pt_vars>>

NextPageTable == MapIfUnmapped \/ Translate

SpecPageTable == InitPageTable /\ [][NextPageTable]_vars

\* The nine-bit slice (v >> shift) & 0x1ff and an entry's frame address,
\* bits 12..=51, as the page-table format defines them.
Slice(v, shift) == ToNat(Shr(v, shift) \cap (0..8))

FrameAddress(entry) == entry \cap (12..51)

\* The entries the walk of v meets, L4 first, stopping after the first one
\* that is not present.
RECURSIVE Walk(_, _, _)
Walk(table, v, level) ==
    LET entry == Index(mem, table, Slice(v, 9 * level + 12))
    IN  IF level = 0 \/ 0 \notin entry THEN <<entry>>
        ELSE <<entry>> \o Walk(WordAdd(FrameAddress(entry), mem.offset),
                               v, level - 1)

\* C20: translate_virtual_address(v) walks L4, L3, L2, L1 with the indices
\* (v>>39)&0x1ff, (v>>30)&0x1ff, (v>>21)&0x1ff, (v>>12)&0x1ff. If the entry
\* at any of the four levels is not present the call returns PageNotPresent,
\* without a panic and without making a reference from that entry; otherwise
\* it returns the frame address of the L1 entry (its bits 12..=51) plus
\* (v & 0xfff).
C20_TranslateWalk ==
    tlast.op = "translate_virtual_address" =>
        LET v == tlast.address
            res == tlast.res
            l4 == WordAdd(mem.cr3 \ (0..11), mem.offset)
            path == Walk(l4, v, 3)
            final == path[Len(path)]
        IN  /\ ~res.panic
            /\ IF 0 \notin final
               THEN /\ ~res.ok /\ res.err = PageNotPresent
                    /\ WordAdd(FrameAddress(final), mem.offset) \notin res.derefs
                    /\ Cardinality(res.derefs) = Len(path) - 1
               ELSE /\ Len(path) = 4
                    /\ res.ok
                    /\ res.value = WordAdd(FrameAddress(final), v \cap (0..11))

\* A translation of 0xdeadbeef that found all four levels present and
\* returned the mapped frame plus 0xeef.
C20_Witness ==
    /\ tlast.op = "translate_virtual_address"
    /\ tlast.address = Hex(<<13, 14, 10, 13, 11, 14, 14, 15>>)
    /\ tlast.res.ok
    /\ tlast.res.value \cap (0..11) = Hex(<<14, 14, 15>>)

\* A translation that stopped at a level below L4, after a neighbouring
\* address had been mapped.
C20_WitnessNotPresent ==
    /\ tlast.op = "translate_virtual_address"
    /\ ~tlast.res.ok
    /\ Cardinality(tlast.res.read) > 1


invlpg(t, a) == map_remove(t, Shr(a, 12))

\* Drop for PageTableEntry: invlpg [self.0] when the entry is present. The
\* operand is the value of the entry.
PageTableEntry_drop(t, entry) ==
    IF PageTableEntry_present(entry) /\ Shr(entry, 12) \in DOMAIN t
    THEN invlpg(t, entry)
    ELSE t

\* The Deref impls that table[i][j][k] goes through: the table an entry
\* points to, or a panic for an entry that is not present.
L1TableOf(m, address) ==
    LET l4_entry == Index(m, PageTable_get(m), level_index(address, 3))
        l3 == PageTableEntry_deref(m, l4_entry)
        l3_entry == Index(m, l3.table, level_index(address, 2))
        l2 == PageTableEntry_deref(m, l3_entry)
        l2_entry == Index(m, l2.table, level_index(address, 1))
    IN  IF ~l3.ok \/ ~l2.ok THEN [ok |-> FALSE, table |-> {}]
        ELSE PageTableEntry_deref(m, l2_entry)

TLBAddresses ==
    {Hex(<<11, 8, 0, 0, 0>>),
     Hex(<<11, 9, 1, 2, 3>>),
     Hex(<<13, 14, 10, 13, 11, 14, 14, 15>>)}

\* The entries kernel code assigns: 0xb8063 (as kernel_main does) and the
\* empty entry.
NewEntries == {Hex(<<11, 8, 0, 6, 3>>), {}}

Halted == tlast.op # "boot" /\ tlast.res = "panic"

InitTLB ==
    /\ RAIdle /\ DLLIdle /\ BumpIdle /\ PAIdle /\ IRQIdle
    /\ \E offset \in {{}, Hex(<<1, 0, 0, 0, 0, 0, 0, 0, 0, 0, 0>>)} :
          mem = [cr3 |-> Hex(<<1, 0, 0, 0>>), offset |-> offset, entry |-> <<>>]
    /\ handed = 0
    /\ tlast = [op |-> "boot"]
    /\ supplied = <<>>
    /\ tlb = <<>>

TLBMap ==
    /\ ~Halted
    /\ \E address \in TLBAddresses :
        LET s == map_if_unmapped(mem, handed, FrameSource, address)
        IN  /\ s.handed <= MaxTLBFrames
            /\ mem' = s.m
            /\ handed' = s.handed
            /\ tlast' = [op |-> "map_if_unmapped", address |-> address,
                         res |-> "ok"]
            /\ UNCHANGED <<supplied, not_pt_vars>>

\* l4_table[i4][i3][i2][i1] = l1::PageTableEntry::new(data): the old entry
\* is dropped and the new one stored.
Assign ==
    /\ ~Halted
    /\ \E address \in TLBAddresses, data \in NewEntries :
        LET l1 == L1TableOf(mem, address)
            key == <<l1.table, level_index(address, 0)>>
        IN  IF ~l1.ok
            THEN /\ tlast' = [op |-> "assign", address |-> address,
                              res |-> "panic"]
                 /\ UNCHANGED <<mem, tlb>>
            ELSE /\ tlb' = PageTableEntry_drop(tlb, Index(mem, key[1], key[2]))
                 /\ mem' = [mem EXCEPT !.entry = map_insert(@, key, data)]
                 /\ tlast' = [op |-> "assign", address |-> address,
                              res |-> "ok"]
    /\ UNCHANGED <<handed, supplied, ra_vars, dll_vars, bump_vars, pa_vars,
                   irq_vars>>

\* A load or store at a virtual address: through the cached translation of
\* its page when there is one, through the tables otherwise (the walk of a
\* present page fills the cache, the walk of any other one faults).
Access ==
    /\ ~Halted
    /\ \E address \in TLBAddresses :
        LET page == Shr(address, 12)
            walk == translate_virtual_address(mem, address)
            frame == Shl(Shr(walk.value, 12), 12)
        IN  IF page \in DOMAIN tlb
            THEN /\ tlast' = [op |-> "access", address |-> address,
                              res |-> "ok", frame |-> tlb[page]]
                 /\ UNCHANGED tlb
            ELSE IF walk.ok
            THEN /\ tlast' = [op |-> "access", address |-> address,
                              res |-> "ok", frame |-> frame]
                 /\ tlb' = map_insert(tlb, page, frame)
            ELSE /\ tlast' = [op |-> "access", address |-> address,
                              res |-> "page fault"]
                 /\ UNCHANGED tlb
    /\ UNCHANGED <<mem, handed, supplied, ra_vars, dll_vars, bump_vars,
                   pa_vars, irq_vars>>

NextTLB == TLBMap \/ Assign \/ Access

SpecTLB == InitTLB /\ [][NextTLB]_vars

\* C22: TLB coherence. Once a present L1 entry for a virtual address v has
\* been overwritten or cleared, no dereference of v uses the translation
\* cached before: every cached translation is the one the tables give, an
\* invlpg for v having been issued with the change.
C22_TLBCoherent ==
    \A address \in TLBAddresses :
        Shr(address, 12) \in DOMAIN tlb =>
            LET walk == translate_virtual_address(mem, address)
            IN  /\ walk.ok
                /\ tlb[Shr(address, 12)] = Shl(Shr(walk.value, 12), 12)


\* ----------------------------------------------------------------- boot
\* a * b on words, by shifts and additions
RECURSIVE WordMul(_, _)
WordMul(a, b) ==
    IF b = {} THEN {}
    ELSE LET i == CHOOSE x \in b : \A y \in b : x <= y
         IN  WordAdd(Shl(a, i), WordMul(a, b \ {i}))

KERNEL_HEAP_START == Hex(<<4, 4, 4, 4, 4, 4, 4, 4, 0, 0, 0, 0>>)
KERNEL_HEAP_SIZE == 100 * 1024

Usable == "Usable"
Reserved == "Reserved"
MemoryRegion(type, start, end) ==
    [region_type |-> type, start_frame_number |-> start,
     end_frame_number |-> end]

\* The memory maps of the boot information: one with reserved frames
\* before and between two usable regions, one whose first usable region is
\* used up exactly by the kernel heap, one with a single usable region and
\* one too small for the kernel heap.
MemoryMaps ==
    {<<MemoryRegion(Reserved, 0, 1), MemoryRegion(Usable, 1, 20),
       MemoryRegion(Reserved, 20, 32), MemoryRegion(Usable, 32, 36)>>,
     <<MemoryRegion(Usable, 2, 30), MemoryRegion(Reserved, 30, 40),
       MemoryRegion(Usable, 40, 42), MemoryRegion(Usable, 44, 46)>>,
     <<MemoryRegion(Usable, 16, 48)>>,
     <<MemoryRegion(Usable, 4, 8), MemoryRegion(Reserved, 8, 16)>>}

\* frame_allocator::usable_frames: the frames of the usable regions, in
\* the order of the memory map, as addresses.
RECURSIVE usable_frames(_)
usable_frames(memory_map) ==
    IF memory_map = <<>> THEN <<>>
    ELSE LET r == Head(memory_map)
         IN  (IF r.region_type = Usable
              THEN [k \in 1..(r.end_frame_number - r.start_frame_number) |->
                       (r.start_frame_number + k - 1) * PAGE_SIZE]
              ELSE <<>>) \o usable_frames(Tail(memory_map))

\* init_kernel_heap: map_if_unmapped for each page of the kernel heap, page
\* number `k` onwards; `s.handed` ends as allocated_frames of memory::init
\* and `s.panic` tells that the frames ran out.
RECURSIVE init_kernel_heap(_, _)
init_kernel_heap(s, k) ==
    IF s.panic \/ k * PAGE_SIZE >= KERNEL_HEAP_SIZE THEN s
    ELSE init_kernel_heap(
             map_if_unmapped(s.m, s.handed, s.source,
                 WordAdd(KERNEL_HEAP_START, Shl(ToBits(k), 12))),
             k + 1)

\* The page tables the bootloader leaves: each layout lists the pages it
\* mapped and their frames; the tables themselves lie in frames from
\* 0x400000 upwards, outside the memory maps above.
BootFrames == [k \in 1..16 |-> WordAdd(Hex(<<4, 0, 0, 0, 0, 0>>), Shl(ToBits(k - 1), 12))]

RECURSIVE BootTables(_, _, _)
BootTables(m, n, pages) ==
    IF pages = <<>> THEN m
    ELSE LET s == map_if_unmapped(m, n, BootFrames, Head(pages).page)
             l1 == L1TableOf(s.m, Head(pages).page)
             key == <<l1.table, level_index(Head(pages).page, 0)>>
         IN  BootTables([s.m EXCEPT !.entry =
                            map_insert(@, key, BitOr(Head(pages).frame, Hex(<<6, 3>>)))],
                        s.handed, Tail(pages))


\* --------------------------------------------------------- PageAllocator
\* const L4_PAGE_SIZE: usize = 1 << 8 << 8 << 8 << 12
L4_PAGE_SIZE == Shl(Shl(Shl(Shl(ToBits(1), 8), 8), 8), 12)

\* l4_page_range: entry_index * L4_PAGE_SIZE..(entry_index + 1) * L4_PAGE_SIZE
l4_page_range(entry_index) ==
    [start |-> WordMul(ToBits(entry_index), L4_PAGE_SIZE),
     end |-> WordMul(ToBits(entry_index + 1), L4_PAGE_SIZE)]

\* vmem holds virtual addresses, which exceed the integers of TLC. Every
\* range vmem is given is page-aligned, and the ResourceAllocator only
\* compares addresses and takes differences, so vmem is kept in pages
\* (quantum 1 for PAGE_SIZE) with the page number 2^31 at 0.
PageOf(word) ==
    LET p == Shr(word, 12)
    IN  IF 31 \in p THEN ToNat(p \ {31}) ELSE (ToNat(p) - 2 ^ 30) - 2 ^ 30

AddressOf(n) ==
    Shl(IF n < 0 THEN ToBits((n + 2 ^ 30) + 2 ^ 30) ELSE ToBits(n) \cup {31}, 12)

PagesOf(range) == [start |-> PageOf(range.start), end |-> PageOf(range.end)]

\* The pages a size in bytes takes: what fast_allocate makes of it with
\* quantum PAGE_SIZE.
PageCount(sz) == DivCeil(sz, PAGE_SIZE)

\* PageAllocator::new
PageAllocator_new ==
    [vmem |-> ResourceAllocator_new(1, WordBits),
     pmem |-> ResourceAllocator_new(PAGE_SIZE, WordBits),
     panic |-> NoPanic]

\* PageAllocator::init, first part: the window of every present L4 entry,
\* from entry i onwards, is added to vmem.
RECURSIVE init_vmem(_, _, _)
init_vmem(vmem, m, i) ==
    LET kept == {j \in i..511 :
                    PageTableEntry_present(Index(m, PageTable_get(m), j))}
        next == CHOOSE j \in kept : \A k \in kept : j <= k
    IN  IF kept = {} THEN vmem
        ELSE init_vmem(add(vmem, PagesOf(l4_page_range(next))), m, next + 1)

\* init reading end_frame_number for `end` and dropping nothing.
RECURSIVE init_pmem_no_drop(_, _, _)
init_pmem_no_drop(pmem, regions, to_drop) ==
    IF regions = <<>> THEN pmem
    ELSE IF Head(regions).region_type # Usable
    THEN init_pmem_no_drop(pmem, Tail(regions), to_drop)
    ELSE LET start == Head(regions).start_frame_number
             end == Head(regions).end_frame_number
         IN  init_pmem_no_drop(add(pmem, [start |-> start * PAGE_SIZE,
                                          end |-> end * PAGE_SIZE]),
                               Tail(regions), 0)

\* PageAllocator::init, second part: the loop over the usable regions.
\* `end` is read from start_frame_number, as `start` is.
RECURSIVE init_pmem(_, _, _)
init_pmem(pmem, regions, to_drop) ==
    IF regions = <<>> THEN pmem
    ELSE IF Head(regions).region_type # Usable
    THEN init_pmem(pmem, Tail(regions), to_drop)
    ELSE LET start == Head(regions).start_frame_number
             end == Head(regions).start_frame_number
         IN  IF end - start > to_drop
             THEN init_pmem(add(pmem, [start |-> (start + to_drop) * PAGE_SIZE,
                                       end |-> end * PAGE_SIZE]),
                            Tail(regions), 0)
             ELSE init_pmem(pmem, Tail(regions), to_drop - (end - start))

PageAllocator_init(p, m, memory_map, used_frames) ==
    [p EXCEPT !.vmem = init_vmem(p.vmem, m, 0),
              !.pmem = init_pmem(p.pmem, memory_map, used_frames)]


\* `F` of the value of `v`.
With(v, F(_)) == CHOOSE y \in {F(x) : x \in {v}} : TRUE

\* The outcomes of up to k successive pmem.fast_allocate(1) calls, the
\* calls of the thunk of allocate, up to the first that fails.
RECURSIVE pmem_calls(_, _)
pmem_calls(pmem, k) ==
    IF k = 0 THEN <<>>
    ELSE With(fast_allocate(pmem, 1), LAMBDA o :
             IF o.res # "ok" THEN <<>>
             ELSE <<o>> \o pmem_calls(o.ra, k - 1))

\* The loop of allocate over the pages of `range` from page `page` on:
\* map_if_unmapped(page, next_frame), the thunk being
\* pmem.fast_allocate(1).unwrap().start.
RECURSIVE map_pages(_, _, _, _)
map_pages(p, m, page, end) ==
    IF p.panic # NoPanic \/ page >= end THEN [p |-> p, m |-> m]
    ELSE With(pmem_calls(p.pmem, 4), LAMBDA calls :
         With(map_if_unmapped(m, 0,
                  [i \in 1..Len(calls) |-> ToBits(calls[i].range.start)],
                  AddressOf(page)), LAMBDA s :
             map_pages([p EXCEPT !.pmem = IF s.handed = 0 THEN @
                                          ELSE calls[s.handed].ra,
                                 !.panic = IF s.panic THEN PanicUnwrap ELSE NoPanic],
                       s.m, page + 1, end)))

\* PageAllocator::allocate: the allocator and the tables afterwards, and
\* what is returned: Err, or Ok of a slice pointer made of range.start and
\* range.end.
PageAllocator_allocate(p, m, sz) ==
    With(fast_allocate(p.vmem, PageCount(sz)), LAMBDA o :
        IF o.res = "panic"
        THEN [p |-> [p EXCEPT !.vmem = o.ra, !.panic = o.ra.panic], m |-> m,
              res |-> "panic", range |-> NoRange, ptr |-> {}, len |-> {}]
        ELSE IF o.res = "exhausted"
        THEN [p |-> [p EXCEPT !.vmem = o.ra], m |-> m, res |-> "Err",
              range |-> NoRange, ptr |-> {}, len |-> {}]
        ELSE With(map_pages([p EXCEPT !.vmem = o.ra], m, o.range.start,
                            o.range.end), LAMBDA r :
            IF r.p.panic # NoPanic
            THEN [p |-> r.p, m |-> r.m, res |-> "panic", range |-> o.range,
                  ptr |-> {}, len |-> {}]
            ELSE [p |-> r.p, m |-> r.m, res |-> "Ok", range |-> o.range,
                  ptr |-> AddressOf(o.range.start),
                  len |-> AddressOf(o.range.end)]))

\* PageAllocator::allocate_frame
PageAllocator_allocate_frame(p) ==
    With(fast_allocate(p.pmem, 1), LAMBDA o :
        IF o.res = "ok"
        THEN [p |-> [p EXCEPT !.pmem = o.ra], res |-> "Ok",
              ptr |-> ToBits(o.range.start)]
        ELSE [p |-> [p EXCEPT !.pmem = o.ra], res |-> "Err", ptr |-> {}])

\* l4::PageTable::unmap: the L1 entry of the address is marked not present
\* and the former entry returned.
unmap(m, address) ==
    With(L1TableOf(m, address), LAMBDA l1 :
        IF ~l1.ok THEN [m |-> m, entry |-> {}, panic |-> TRUE]
        ELSE With(Index(m, l1.table, level_index(address, 0)), LAMBDA entry :
            [m |-> [m EXCEPT !.entry =
                       map_insert(@, <<l1.table, level_index(address, 0)>>,
                                  entry \ {0})],
             entry |-> entry, panic |-> FALSE]))

\* The loop of deallocate over the pages from `page` on: unmap, then
\* pmem.release of the frame of the former entry.
RECURSIVE unmap_pages(_, _, _, _)
unmap_pages(p, m, page, end) ==
    IF p.panic # NoPanic \/ page >= end THEN [p |-> p, m |-> m]
    ELSE With(unmap(m, AddressOf(page)), LAMBDA u :
        IF u.panic THEN [p |-> [p EXCEPT !.panic = PanicDeref], m |-> m]
        ELSE With(ToNat(PageTableEntry_pointer(u.entry)), LAMBDA ptr :
             With(release(p.pmem, [start |-> ptr, end |-> ptr + PAGE_SIZE]),
                  LAMBDA pmem :
                 unmap_pages([p EXCEPT !.pmem = pmem, !.panic = pmem.panic],
                             u.m, page + 1, end))))

\* PageAllocator::deallocate: vmem.release of ptr..ptr + size, then the
\* loop over its pages.
PageAllocator_deallocate(p, m, ptr, sz) ==
    With(release(p.vmem, [start |-> PageOf(ptr),
                          end |-> PageOf(ptr) + PageCount(sz)]), LAMBDA vmem :
        IF vmem.panic # NoPanic
        THEN [p |-> [p EXCEPT !.vmem = vmem, !.panic = vmem.panic], m |-> m]
        ELSE unmap_pages([p EXCEPT !.vmem = vmem], m, PageOf(ptr),
                         PageOf(ptr) + PageCount(sz)))


\* The layouts the bootloader may leave: the VGA buffer (identity-mapped)
\* and a page of kernel code; the same and three pages of boot data at
\* 0x88000000000; the same with the second of them a second mapping of the
\* frame of the first.
BootPage(page, frame) == [page |-> page, frame |-> frame]

BootLayouts ==
    LET kernel == <<BootPage(Hex(<<11, 8, 0, 0, 0>>), Hex(<<11, 8, 0, 0, 0>>)),
                    BootPage(Hex(<<2, 0, 1, 0, 0, 0>>), Hex(<<5, 0, 0, 0, 0, 0>>))>>
    IN  {kernel,
         kernel \o <<BootPage(Hex(<<8, 8, 0, 0, 0, 0, 0, 0, 0, 0, 0>>), Hex(<<6, 0, 0, 0, 0, 0>>)),
                     BootPage(Hex(<<8, 8, 0, 0, 0, 0, 0, 1, 0, 0, 0>>), Hex(<<6, 0, 1, 0, 0, 0>>)),
                     BootPage(Hex(<<8, 8, 0, 0, 0, 0, 0, 2, 0, 0, 0>>), Hex(<<6, 0, 2, 0, 0, 0>>))>>,
         kernel \o <<BootPage(Hex(<<8, 8, 0, 0, 0, 0, 0, 0, 0, 0, 0>>), Hex(<<6, 0, 0, 0, 0, 0>>)),
                     BootPage(Hex(<<8, 8, 0, 0, 0, 0, 0, 1, 0, 0, 0>>), Hex(<<6, 0, 0, 0, 0, 0>>)),
                     BootPage(Hex(<<8, 8, 0, 0, 0, 0, 0, 2, 0, 0, 0>>), Hex(<<6, 0, 2, 0, 0, 0>>))>>}

\* Requests, in bytes.
PASizes == {0, 1, PAGE_SIZE, PAGE_SIZE + 1, 2 * PAGE_SIZE}

\* The frame the tables give a page, 0 bits for a page that is not mapped.
FrameOf(m, page) ==
    LET t == translate_virtual_address(m, AddressOf(page))
    IN  IF t.ok THEN t.value ELSE {}

\* memory::init on the boot information: the kernel heap is mapped from
\* the usable frames, then PAGE_ALLOCATOR is initialised.
InitPA ==
    /\ RAIdle /\ DLLIdle /\ BumpIdle /\ TLBIdle /\ IRQIdle
    /\ \E memory_map \in MemoryMaps, layout \in BootLayouts :
        LET m0 == BootTables([cr3 |-> Hex(<<3, 15, 15, 0, 0, 0>>), offset |-> {},
                              entry |-> <<>>], 0, layout)
            frames == usable_frames(memory_map)
            h == init_kernel_heap(
                     [m |-> m0, handed |-> 0,
                      source |-> [i \in 1..Len(frames) |-> ToBits(frames[i])],
                      called |-> FALSE, panic |-> FALSE, table |-> {}], 0)
        IN  /\ mem = h.m
            /\ handed = h.handed
            /\ boot = [memory_map |-> memory_map, used_frames |-> h.handed,
                       pulled |-> {ToNat(PageTableEntry_pointer(h.m.entry[k])) :
                                      k \in DOMAIN h.m.entry \ DOMAIN m0.entry}]
            /\ pa = IF h.panic
                    THEN [PageAllocator_new EXCEPT !.panic = PanicExpect]
                    ELSE PageAllocator_init(PageAllocator_new, h.m, memory_map,
                                            h.handed)
    /\ tlast = [op |-> "boot"]
    /\ supplied = <<>>
    /\ palive = {}
    /\ palast = [op |-> "init"]

pa_others == <<handed, tlast, supplied, boot, ra_vars, dll_vars, bump_vars,
               tlb_vars, irq_vars>>

PAAllocate ==
    /\ pa.panic = NoPanic
    /\ Cardinality(palive) < MaxPALive
    /\ Len(pa.vmem.segments) < MaxAddr
    /\ \E sz \in PASizes : \E r \in {PageAllocator_allocate(pa, mem, sz)} :
        LET pages == r.range.start..(r.range.end - 1)
        IN  /\ pa' = r.p
            /\ mem' = r.m
            /\ palast' = [op |-> "allocate", size |-> sz, res |-> r.res,
                          ptr |-> r.ptr, len |-> r.len, range |-> r.range,
                          before |-> pa]
            /\ palive' = IF r.res = "Ok"
                         THEN palive \cup
                              {[ptr |-> r.ptr, size |-> sz, range |-> r.range,
                                frames |-> [page \in pages |-> FrameOf(r.m, page)]]}
                         ELSE palive
    /\ UNCHANGED pa_others

PAAllocateFrame ==
    /\ pa.panic = NoPanic
    /\ \E r \in {PageAllocator_allocate_frame(pa)} :
           /\ pa' = r.p
           /\ palast' = [op |-> "allocate_frame", res |-> r.res, ptr |-> r.ptr,
                         before |-> pa]
    /\ UNCHANGED <<mem, palive, pa_others>>

PADeallocate ==
    /\ pa.panic = NoPanic
    /\ \E a \in palive :
        \E r \in {PageAllocator_deallocate(pa, mem, a.ptr, a.size)} :
            /\ pa' = r.p
            /\ mem' = r.m
            /\ palive' = palive \ {a}
            /\ palast' = [op |-> "deallocate", alloc |-> a,
                          res |-> IF r.p.panic = NoPanic THEN "ok" ELSE "panic",
                          before |-> pa]
    /\ UNCHANGED pa_others

NextPA == PAAllocate \/ PAAllocateFrame \/ PADeallocate

SpecPA == InitPA /\ [][NextPA]_vars


\* ------------------------------------------------------------------ C24
\* The frames of a range of pmem.
FramesIn(r) ==
    {r.start + k * PAGE_SIZE : k \in 0..((r.end - r.start) \div PAGE_SIZE - 1)}

\* The frames pmem has free: those of its segments that are on a freelist.
FreeFrames(pmem) ==
    UNION {FramesIn(pmem.node[pmem.segments[i]]) :
               i \in {j \in 1..Len(pmem.segments) :
                          IsFree(pmem.node[pmem.segments[j]])}}

\* The usable frames of the memory map after its first `used_frames`.
FramesAfter(memory_map, used_frames) ==
    LET frames == usable_frames(memory_map)
    IN  {frames[i] : i \in (used_frames + 1)..Len(frames)}

\* memory::init has returned and the page allocator was not called since.
Booted == pa.panic = NoPanic /\ palast.op = "init"

\* C24: after init(memory_map, used_frames) the free frames of pmem are
\* exactly the usable frames of the memory map after the first used_frames
\* of them, counted in the order of the memory map.
C24_InitPmem ==
    Booted => FreeFrames(pa.pmem) =
                  FramesAfter(boot.memory_map, boot.used_frames)


\* ------------------------------------------------------------------ C27
\* C27: allocate(size), when it succeeds, returns the start of the range it
\* reserved as the pointer and the bytes of the range, end - start, as the
\* length: size rounded up to a multiple of PAGE_SIZE.
C27_PointerAndLength ==
    (palast.op = "allocate" /\ palast.res = "Ok") =>
        /\ palast.ptr = AddressOf(palast.range.start)
        /\ palast.len =
               ToBits((palast.range.end - palast.range.start) * PAGE_SIZE)
        /\ palast.size > 0 =>
               palast.len = ToBits(PageCount(palast.size) * PAGE_SIZE)


\* ------------------------------------------------------------------ C26
\* The ranges an allocator has free.
FreeRanges(a) ==
    {RangeOf(a.node[a.segments[i]]) :
         i \in {j \in 1..Len(a.segments) : IsFree(a.node[a.segments[j]])}}

\* C26: an allocate that reserved a virtual range and then found no frame
\* for one of its pages returns Err without a panic, and has given back
\* the frames it took and the range: vmem and pmem have free what they had
\* free before the call.
C26_ExhaustedWithRollback ==
    (palast.op = "allocate" /\ palast.range # NoRange /\ palast.res # "Ok") =>
        /\ palast.res = "Err"
        /\ pa.panic = NoPanic
        /\ FreeRanges(pa.vmem) = FreeRanges(palast.before.vmem)
        /\ FreeRanges(pa.pmem) = FreeRanges(palast.before.pmem)


\* ------------------------------------------------------------------ C25
\* C25: after deallocate(p, n * PAGE_SIZE) of an allocation of n pages, no
\* page of it is mapped, the frames that backed the pages, and no others,
\* are free again in pmem, and the range lies in a free range of vmem.
C25_Reclaim ==
    (/\ palast.op = "deallocate"
     /\ palast.alloc.size > 0
     /\ palast.alloc.size % PAGE_SIZE = 0) =>
        LET a == palast.alloc
            frames == {ToNat(a.frames[page]) : page \in DOMAIN a.frames}
        IN  /\ pa.panic = NoPanic
            /\ \A page \in DOMAIN a.frames :
                   ~translate_virtual_address(mem, AddressOf(page)).ok
            /\ FreeFrames(pa.pmem) = FreeFrames(palast.before.pmem) \cup frames
            /\ FreeFrames(palast.before.pmem) \cap frames = {}
            /\ \E r \in FreeRanges(pa.vmem) :
                   r.start <= a.range.start /\ a.range.end <= r.end


\* ------------------------------------------------------------------ C23
\* The pages of a live allocation.
PagesOfAllocation(a) == a.range.start..(a.range.end - 1)

\* C23: the frames that back two distinct live allocations are disjoint,
\* and no frame that backs a page of a live allocation is mapped at another
\* page the page allocator handed out.
C23_NoAliasing ==
    \A a, b \in palive :
        \A p \in PagesOfAllocation(a), q \in PagesOfAllocation(b) :
            p # q => FrameOf(mem, p) # FrameOf(mem, q)


\* ------------------------------------------------------------------ C28
\* The frames pmem holds, free or allocated.
HeldFrames(pmem) ==
    UNION {FramesIn(pmem.node[pmem.segments[i]]) : i \in 1..Len(pmem.segments)}

Locks == {"ALLOCATOR", "PAGE_ALLOCATOR", "WRITER", "KEYBOARD", "PIC"}
AllocatorLocks == {"ALLOCATOR", "PAGE_ALLOCATOR"}

\* RFLAGS with the interrupt flag (bit 9) as given; bit 1 always reads 1.
RFlags(flag) == IF flag THEN {1, 9} ELSE {1}

\* are_interrupts_enabled: (rflags & (1 << 9)) != 0
are_interrupts_enabled(rflags) == BitAnd(rflags, Shl(ToBits(1), 9)) # {}

\* DisableInterruptsGuard::guard, up to the cli: the guard is built from
\* the flags read.
DisableInterruptsGuard_guard(rflags) ==
    [reenable |-> are_interrupts_enabled(rflags)]

\* A drop that executes sti whatever the guard holds.
DisableInterruptsGuard_drop_sti(g, flag) == TRUE

\* Drop for DisableInterruptsGuard: the interrupt flag afterwards.
DisableInterruptsGuard_drop(g, flag) == IF g.reenable THEN TRUE ELSE flag

\* The steps of a piece of code that bear on interrupts and locks.
Instr(op, l) == [op |-> op, lock |-> l]
NoLock == "none"

\* print!: without_interrupt! around WRITER.lock().write_fmt(..)
write_vga ==
    <<Instr("pushfq", NoLock), Instr("cli", NoLock), Instr("lock", "WRITER"),
      Instr("unlock", "WRITER"), Instr("drop", NoLock)>>

\* sos::init: memory::init (PAGE_ALLOCATOR.lock().init), interrupt::init
\* (println!), pic8259::init (PIC.lock().init(), then sti).
BootProgram ==
    <<Instr("lock", "PAGE_ALLOCATOR"), Instr("unlock", "PAGE_ALLOCATOR")>>
    \o write_vga
    \o <<Instr("lock", "PIC"), Instr("unlock", "PIC"), Instr("sti", NoLock)>>

timer_handler ==
    <<Instr("lock", "PIC"), Instr("unlock", "PIC"), Instr("iretq", NoLock)>>

\* `key`: read_scancode gave a character, which is printed.
keyboard_handler(key) ==
    <<Instr("pushfq", NoLock), Instr("cli", NoLock),
      Instr("lock", "KEYBOARD"), Instr("unlock", "KEYBOARD")>>
    \o (IF key THEN write_vga ELSE <<>>)
    \o <<Instr("drop", NoLock), Instr("lock", "PIC"), Instr("unlock", "PIC"),
         Instr("iretq", NoLock)>>

ProgramOf(c) ==
    CASE c.kind = "timer" -> timer_handler
      [] c.kind = "keyboard" -> keyboard_handler(c.key)
      [] OTHER -> BootProgram

\* One step of the code of context `c`, which runs at depth `depth` of the
\* stack: the context, the interrupt flag and the lock holders afterwards.
\* A guard is kept with the flag as it was when its scope was entered.
exec(i, c, flag, h, depth) ==
    CASE i.op = "pushfq" ->
             [c |-> [c EXCEPT !.guards =
                        Append(@, [reenable |->
                                       DisableInterruptsGuard_guard(RFlags(flag)).reenable,
                                   armed |-> FALSE, before |-> flag])],
              flag |-> flag, held |-> h]
      [] i.op = "cli" ->
             [c |-> [c EXCEPT !.guards[Len(c.guards)].armed = TRUE],
              flag |-> FALSE, held |-> h]
      [] i.op = "drop" ->
             [c |-> [c EXCEPT !.guards = SubSeq(@, 1, Len(@) - 1)],
              flag |-> DisableInterruptsGuard_drop(c.guards[Len(c.guards)], flag),
              held |-> h]
      [] i.op = "sti" -> [c |-> c, flag |-> TRUE, held |-> h]
      [] i.op = "lock" ->
             [c |-> c, flag |-> flag, held |-> [h EXCEPT ![i.lock] = depth]]
      [] i.op = "unlock" ->
             [c |-> c, flag |-> flag, held |-> [h EXCEPT ![i.lock] = 0]]

\* spin::Mutex::lock spins while the lock is held.
can_exec(i, h) == i.op = "lock" => h[i.lock] = 0

Top == stack[Len(stack)]
Booting == Len(stack) = 1 /\ Top.pc <= Len(BootProgram)
Running == Len(stack) = 1 /\ Top.pc > Len(BootProgram)
Holds(depth) == {l \in Locks : held[l] = depth}

\* Kernel entry: interrupts are disabled, no lock is held.
InitIRQ ==
    /\ RAIdle /\ DLLIdle /\ BumpIdle /\ PTIdle /\ TLBIdle /\ PAIdle
    /\ iflag = FALSE
    /\ stack = <<[kind |-> "main", key |-> FALSE, pc |-> 1, guards |-> <<>>,
                   saved |-> FALSE]>>
    /\ held = [l \in Locks |-> 0]

irq_others == <<ra_vars, dll_vars, bump_vars, pt_vars, tlb_vars, pa_vars>>

Do(i, next) ==
    /\ can_exec(i, held)
    /\ LET r == exec(i, Top, iflag, held, Len(stack))
       IN  /\ stack' = [stack EXCEPT ![Len(stack)] = [r.c EXCEPT !.pc = next]]
           /\ iflag' = r.flag
           /\ held' = r.held
    /\ UNCHANGED irq_others

\* The next step of sos::init.
Boot == Booting /\ Do(BootProgram[Top.pc], Top.pc + 1)

\* kernel_main after init: a guarded scope is entered (two steps) or left.
KernelGuard ==
    /\ Running /\ Holds(1) = {}
    /\ \E op \in {"pushfq", "cli", "drop"} :
        /\ op = "pushfq" =>
               /\ Len(Top.guards) < MaxNest
               /\ Top.guards # <<>> => Top.guards[Len(Top.guards)].armed
        /\ op = "cli" =>
               Top.guards # <<>> /\ ~Top.guards[Len(Top.guards)].armed
        /\ op = "drop" =>
               Top.guards # <<>> /\ Top.guards[Len(Top.guards)].armed
        /\ Do(Instr(op, NoLock), Top.pc)

\* kernel_main inside print!: WRITER is locked or unlocked.
KernelWrite ==
    /\ Running
    /\ Top.guards # <<>> /\ Top.guards[Len(Top.guards)].armed
    /\ \E op \in {"lock", "unlock"} :
        /\ Holds(1) = IF op = "lock" THEN {} ELSE {"WRITER"}
        /\ Do(Instr(op, "WRITER"), Top.pc)

\* kernel_main allocating (Box::new, BigRegionAllocator::allocate): the
\* lock of an allocator is taken or released.
KernelAllocate ==
    /\ Running
    /\ Top.guards = <<>>
    /\ \E op \in {"lock", "unlock"}, l \in AllocatorLocks :
        /\ Holds(1) = IF op = "lock" THEN {} ELSE {l}
        /\ Do(Instr(op, l), Top.pc)

\* An interrupt is delivered through an interrupt gate: the flags are
\* pushed and the interrupt flag cleared.
Deliver ==
    /\ iflag = TRUE
    /\ Len(stack) < MaxDepth
    /\ \E kind \in {"timer", "keyboard"}, key \in BOOLEAN :
        /\ kind = "timer" => key = FALSE
        /\ stack' = Append(stack, [kind |-> kind, key |-> key, pc |-> 1,
                                   guards |-> <<>>, saved |-> iflag])
    /\ iflag' = FALSE
    /\ UNCHANGED <<held, irq_others>>

\* The next step of the handler that runs.
Handler ==
    /\ Len(stack) > 1
    /\ ProgramOf(Top)[Top.pc].op # "iretq"
    /\ Do(ProgramOf(Top)[Top.pc], Top.pc + 1)

\* The handler returns: iretq pops the flags.
Iretq ==
    /\ Len(stack) > 1
    /\ ProgramOf(Top)[Top.pc].op = "iretq"
    /\ stack' = SubSeq(stack, 1, Len(stack) - 1)
    /\ iflag' = Top.saved
    /\ UNCHANGED <<held, irq_others>>

NextIRQ ==
    Boot \/ KernelGuard \/ KernelWrite \/ KernelAllocate \/ Deliver \/ Handler
    \/ Iretq

SpecIRQ == InitIRQ /\ [][NextIRQ]_vars

\* ------------------------------------------------------------------ C29
\* Some guarded scope is active: its guard was built and cli executed.
ScopeActive ==
    \E k \in 1..Len(stack) : \E j \in 1..Len(stack[k].guards) :
        stack[k].guards[j].armed

\* The running code leaves its outermost guarded scope.
OutermostExit ==
    /\ Len(stack') = Len(stack)
    /\ Len(Top.guards) = 1 /\ Top.guards[1].armed
    /\ stack'[Len(stack)].guards = <<>>

\* C29: while a guarded scope is active interrupts are disabled, so also
\* after an inner scope was left, and when the outermost scope is left the
\* interrupt flag is what it was when that scope was entered.
C29_GuardNesting ==
    /\ [](ScopeActive => iflag = FALSE)
    /\ [][OutermostExit => iflag' = Top.guards[1].before]_vars

\* kernel_main is in a scope nested in a scope that it entered with
\* interrupts enabled.
C29_Witness ==
    /\ Running
    /\ Len(Top.guards) = 2
    /\ Top.guards[1].armed /\ Top.guards[2].armed
    /\ Top.guards[1].before = TRUE
    /\ Top.guards[2].before = FALSE

\* ------------------------------------------------------------------ C30
\* C30: whenever the lock of the heap allocator or of the page allocator
\* is held, interrupts are disabled.
C30_AllocatorLocksMasked ==
    \A l \in AllocatorLocks : held[l] # 0 => iflag = FALSE


\* ------------------------------------------------------------------ C31
\* The slow path is taken for `sz`: the quanta asked for are not a power of
\* two and every freelist from ceil_log2(qsize) up is empty.
SlowPath(sz) ==
    /\ Log2(QSize(sz)) < ceil_log2(QSize(sz))
    /\ \A k \in ceil_log2(QSize(sz))..(ra.M - 1) : ra.freelists[k] = <<>>

\* The segments of freelist floor(log2(qsize)), front to back.
SlowList(sz) ==
    LET list == ra.freelists[Log2(QSize(sz))]
    IN  [i \in 1..Len(list) |-> ra.node[ra.fnode[list[i]]]]

\* C31: an allocate that takes the slow path uses the first segment, front
\* to back, of freelist floor(log2(qsize)) that is at least qsize*Q long,
\* and returns Exhausted, leaving the allocator as it was, when the
\* freelist has none.
C31_SlowPathFirstFit ==
    [][(last'.op = "allocate" /\ SlowPath(last'.size)) =>
          LET list == SlowList(last'.size)
              hits == {i \in 1..Len(list) :
                          size(list[i]) >= QSize(last'.size) * ra.Q}
              first == CHOOSE i \in hits : \A j \in hits : i <= j
          IN  IF hits = {}
              THEN last'.res = "exhausted" /\ ra' = ra
              ELSE /\ last'.res = "ok"
                   /\ last'.chosen = RangeOf(list[first])]_vars


\* ------------------------------------------------------------------ C32
\* C32: between operations the keys of allocated_segments are the starts of
\* the segments of the segment list that are on no freelist, and each key
\* maps to the segment of the list that starts there.
C32_AllocatedTable ==
    ra.panic = NoPanic =>
        /\ DOMAIN ra.allocated_segments =
               {SegList[i].start : i \in {j \in 1..Len(SegList) : ~IsFree(SegList[j])}}
        /\ \A k \in DOMAIN ra.allocated_segments :
               /\ \E i \in 1..Len(ra.segments) :
                      ra.segments[i] = ra.allocated_segments[k]
               /\ ra.node[ra.allocated_segments[k]].start = k

\* A release has merged a segment away while two allocations made by
\* splitting stay in the table.
C32_Witness ==
    /\ last.op = "release" /\ last.res = "ok"
    /\ Cardinality(DOMAIN ra.allocated_segments) >= 2
    /\ \E i \in 1..Len(SegList) : IsFree(SegList[i])
    /\ Len(SegList) > Cardinality(added)


\* ------------------------------------------------------------------ C33
\* The entries on the path of address v in tables m whose chain for v is
\* present: <<table, index>> for L4, L3, L2 and L1.
RECURSIVE PathOf(_, _, _, _)
PathOf(m, table, v, level) ==
    LET key == <<table, level_index(v, level)>>
    IN  IF level = 0 THEN {key}
        ELSE {key} \cup
             PathOf(m, physical_to_virtual(m,
                           PageTableEntry_pointer(Index(m, table, key[2]))),
                    v, level - 1)

EntryPresent(m, key) == PageTableEntry_present(Index(m, key[1], key[2]))

\* C33: map_if_unmapped(v, next_frame) calls next_frame once for each entry
\* on the path of v that was not present, rewrites no entry that was
\* present, leaves every entry off the path as it was, and on a chain that
\* is present already makes no call and changes nothing.
C33_MapIfUnmappedEffect ==
    [][tlast'.op = "map_if_unmapped" =>
          LET path == PathOf(mem', PageTable_get(mem'), tlast'.address, 3)
              missing == {key \in path : ~EntryPresent(mem, key)}
          IN  /\ handed' - handed = Cardinality(missing)
              /\ \A key \in DOMAIN mem.entry :
                     (EntryPresent(mem, key) \/ key \notin path) =>
                         /\ key \in DOMAIN mem'.entry
                         /\ mem'.entry[key] = mem.entry[key]
              /\ DOMAIN mem'.entry \ DOMAIN mem.entry \subseteq path
              /\ missing = {} => mem' = mem /\ handed' = handed]_vars

\* A call after the first has mapped an address that shares a part of its
\* path with one mapped before: it called next_frame once.
C33_Witness ==
    /\ tlast.op = "map_if_unmapped"
    /\ handed = 5
    /\ Cardinality(DOMAIN mem.entry) = 5


\* ------------------------------------------------------------------ C34
\* The bit positions an entry value of this specification may have set: the
\* present bit, flag bits, both ends of the address field, and bits above
\* the field.
EntryBits == {0, 1, 11, 12, 51, 52, 55, 63}

\* The slot of the L4 table that holds the entry.
EntrySlot(m) == <<PageTable_get(m), 0>>

\* PageTableEntry::new: PageTableEntry(data)
PageTableEntry_new(data) == data

InitEntry ==
    /\ RAIdle /\ DLLIdle /\ BumpIdle /\ TLBIdle /\ PAIdle /\ IRQIdle
    /\ \E data \in SUBSET EntryBits :
          LET m == [cr3 |-> Hex(<<1, 0, 0, 0>>), offset |-> {}, entry |-> <<>>]
          IN  mem = [m EXCEPT !.entry = map_insert(@, EntrySlot(m),
                                                   PageTableEntry_new(data))]
    /\ handed = 0
    /\ tlast = [op |-> "boot"]
    /\ supplied = <<>>

EntryNew ==
    \E data \in SUBSET EntryBits :
        /\ mem' = [mem EXCEPT !.entry = map_insert(@, EntrySlot(mem),
                                                   PageTableEntry_new(data))]
        /\ tlast' = [op |-> "new"]
        /\ UNCHANGED <<handed, supplied, not_pt_vars>>

EntryPointer ==
    LET entry == Index(mem, EntrySlot(mem)[1], EntrySlot(mem)[2])
    IN  /\ tlast' = [op |-> "pointer", entry |-> entry,
                     res |-> PageTableEntry_pointer(entry)]
        /\ UNCHANGED <<mem, handed, supplied, not_pt_vars>>

NextEntry == EntryNew \/ EntryPointer

SpecEntry == InitEntry /\ [][NextEntry]_vars

\* C34: pointer() returns exactly bits 12 to 51 of the entry, so no bit
\* below 12 and no bit above 51 contributes to the returned address.
C34_PointerBits ==
    tlast.op = "pointer" => tlast.res = tlast.entry \cap (12..51)


\* ------------------------------------------------------------------ C35
\* a <= b for machine words: the highest bit in which they differ is set
\* in b.
WordLe(a, b) ==
    LET d == (a \ b) \cup (b \ a)
    IN  d = {} \/ (CHOOSE x \in d : \A y \in d : y <= x) \in b

\* The addresses L4 slot i translates: [i * 2^39, (i + 1) * 2^39).
SlotWindow(i) == [start |-> Shl(ToBits(i), 39), end |-> Shl(ToBits(i + 1), 39)]

SlotPresent(m, i) == PageTableEntry_present(Index(m, PageTable_get(m), i))

\* The free ranges of vmem, in addresses.
VmemFree(p) ==
    {[start |-> AddressOf(r.start), end |-> AddressOf(r.end)] :
         r \in FreeRanges(p.vmem)}

\* A page the tables map that no live allocation holds.
MappedOutside(page) ==
    /\ FrameOf(mem, page) # {}
    /\ \A a \in palive : page \notin PagesOfAllocation(a)

\* C35: after init vmem has free exactly the windows of the L4 slots that
\* are not present: it covers the window of every slot that is not present
\* and meets the window of no slot that is present, and so an allocate never
\* returns a page that was mapped already.
C35_VmemFromUnusedSlots ==
    /\ [](Booted =>
            \A i \in 0..511 :
                IF SlotPresent(mem, i)
                THEN \A r \in VmemFree(pa) :
                         \/ WordLe(r.end, SlotWindow(i).start)
                         \/ WordLe(SlotWindow(i).end, r.start)
                ELSE \E r \in VmemFree(pa) :
                         /\ WordLe(r.start, SlotWindow(i).start)
                         /\ WordLe(SlotWindow(i).end, r.end))
    /\ [][(palast'.op = "allocate" /\ palast'.res = "Ok") =>
             \A page \in palast'.range.start..(palast'.range.end - 1) :
                 ~MappedOutside(page)]_vars


\* ------------------------------------------------------------------ C36
\* l4_page_range on its own: an L4 entry index is chosen, as init
\* enumerates the 512 entries of the table, and the function is applied.
InitL4Range ==
    /\ RAIdle /\ DLLIdle /\ BumpIdle /\ PTIdle /\ TLBIdle /\ IRQIdle
    /\ pa = PageAllocator_new
    /\ boot = Idle
    /\ palive = {}
    /\ \E entry_index \in 0..511 :
          palast = [op |-> "enumerate", entry_index |-> entry_index]

L4PageRange ==
    /\ palast.op = "enumerate"
    /\ palast' = [op |-> "l4_page_range", entry_index |-> palast.entry_index,
                  range |-> l4_page_range(palast.entry_index)]
    /\ UNCHANGED <<pa, palive, mem, pa_others>>

NextL4Range == L4PageRange

SpecL4Range == InitL4Range /\ [][NextL4Range]_vars

\* C36: l4_page_range(i) is [i * 2^39, (i + 1) * 2^39), and the first and
\* the last address of the range it returns have L4 index i.
C36_L4PageRange ==
    palast.op = "l4_page_range" =>
        /\ palast.range = SlotWindow(palast.entry_index)
        /\ level_index(palast.range.start, 3) = palast.entry_index
        /\ level_index(WordAdd(palast.range.end, 0..(WordBits - 1)), 3) =
               palast.entry_index


\* ------------------------------------------------------------------ C37
\* vga_buffer::_print, and the read `WRITER.lock().buffer[..]` of
\* test_print_output that the test kernel runs after init: WRITER is locked
\* or unlocked outside without_interrupt!.
KernelLockWriter ==
    /\ Running
    /\ Top.guards = <<>>
    /\ \E op \in {"lock", "unlock"} :
        /\ Holds(1) = IF op = "lock" THEN {} ELSE {"WRITER"}
        /\ Do(Instr(op, "WRITER"), Top.pc)

NextIRQPrint == NextIRQ \/ KernelLockWriter

\* The processor goes on executing the handler it has entered.
SpecIRQPrint ==
    InitIRQ /\ [][NextIRQPrint]_vars /\ WF_vars(Handler) /\ WF_vars(Iretq)

HandlerLocks == {"WRITER", "KEYBOARD", "PIC"}

InHandler == Len(stack) > 1

\* The handler that runs is about to take a lock that is held.
HandlerSpins ==
    /\ InHandler
    /\ ProgramOf(Top)[Top.pc].op = "lock"
    /\ held[ProgramOf(Top)[Top.pc].lock] # 0

\* C37: WRITER, KEYBOARD and PIC are held only while interrupts are
\* disabled, so a timer or keyboard handler never comes to take a lock that
\* the code it interrupted holds, and every handler entered returns.
C37_NoHandlerDeadlock ==
    /\ [](\A l \in HandlerLocks : held[l] # 0 => iflag = FALSE)
    /\ [](~HandlerSpins)
    /\ (InHandler ~> ~InHandler)


\* ------------------------------------------------------------------ C38
\* memory::init, statement by statement, with the store of the offset after
\* the kernel heap is mapped.
memory_init_late_store == <<"init_kernel_heap", "store_offset", "init">>

\* memory::init: the offset is stored, the kernel heap is mapped, and
\* PAGE_ALLOCATOR is initialised.
memory_init == <<"store_offset", "init_kernel_heap", "init">>

HeapPages == KERNEL_HEAP_SIZE \div PAGE_SIZE

HeapPage(k) == WordAdd(KERNEL_HEAP_START, Shl(ToBits(k), 12))

\* The statement memory::init is at; none after a panic or the return.
BootAt(step) ==
    /\ boot.pc \in 1..Len(memory_init)
    /\ memory_init[boot.pc] = step

\* A read of PHYSICAL_MEMORY_OFFSET: the first one evaluates
\* *_PHYSICAL_MEMORY_OFFSET.lock() and the value stays. `mem.offset` is the
\* value the static has; the tables lie where the bootloader mapped
\* physical memory, at boot.physical_memory_offset.
ReadOffset(m, b) == IF b.latched THEN m ELSE [m EXCEPT !.offset = b.stored]

\* Kernel entry: the bootloader has built its tables, the statics are not
\* initialised (the mutex of the offset will start at 0).
InitBoot ==
    /\ RAIdle /\ DLLIdle /\ BumpIdle /\ TLBIdle /\ IRQIdle
    /\ \E memory_map \in MemoryMaps, layout \in BootLayouts,
          offset \in {{}, Hex(<<1, 0, 0, 0, 0, 0, 0, 0, 0, 0, 0>>)} :
        /\ mem = [BootTables([cr3 |-> Hex(<<3, 15, 15, 0, 0, 0>>),
                              offset |-> offset, entry |-> <<>>], 0, layout)
                      EXCEPT !.offset = {}]
        /\ boot = [memory_map |-> memory_map, physical_memory_offset |-> offset,
                   stored |-> {}, latched |-> FALSE, pc |-> 1, page |-> 0,
                   allocated_frames |-> 0, used_frames |-> 0]
    /\ handed = 0
    /\ pa = PageAllocator_new
    /\ tlast = [op |-> "boot"]
    /\ supplied = <<>>
    /\ palive = {}
    /\ palast = [op |-> "new"]

boot_others == <<tlast, supplied, palive, ra_vars, dll_vars, bump_vars,
                 tlb_vars, irq_vars>>

\* *_PHYSICAL_MEMORY_OFFSET.lock() = boot_info.physical_memory_offset
StoreOffset ==
    /\ BootAt("store_offset")
    /\ boot' = [boot EXCEPT !.stored = boot.physical_memory_offset,
                            !.pc = @ + 1]
    /\ UNCHANGED <<mem, handed, pa, palast, boot_others>>

\* init_kernel_heap, one page of the loop: the thunk counts the call and
\* takes the next usable frame, or panics when there is none.
MapHeapPage ==
    /\ BootAt("init_kernel_heap")
    /\ LET frames == usable_frames(boot.memory_map)
       IN  \E s \in {map_if_unmapped(
                         ReadOffset(mem, boot), handed,
                         [i \in 1..Len(frames) |-> ToBits(frames[i])],
                         HeapPage(boot.page))} :
               /\ mem' = s.m
               /\ handed' = s.handed
               /\ boot' = [boot EXCEPT
                      !.latched = TRUE,
                      !.allocated_frames = s.handed + (IF s.panic THEN 1 ELSE 0),
                      !.page = @ + 1,
                      !.pc = IF s.panic THEN 0
                             ELSE IF boot.page + 1 = HeapPages THEN @ + 1
                             ELSE @]
    /\ UNCHANGED <<pa, palast, boot_others>>

\* (*PAGE_ALLOCATOR.lock()).init(&boot_info.memory_map, allocated_frames)
InitAllocator ==
    /\ BootAt("init")
    /\ \E m \in {ReadOffset(mem, boot)} :
        /\ mem' = m
        /\ pa' = PageAllocator_init(pa, m, boot.memory_map,
                                    boot.allocated_frames)
    /\ boot' = [boot EXCEPT !.latched = TRUE,
                            !.used_frames = boot.allocated_frames,
                            !.pc = @ + 1]
    /\ palast' = [op |-> "init"]
    /\ UNCHANGED <<handed, boot_others>>

NextBoot == StoreOffset \/ MapHeapPage \/ InitAllocator

SpecBoot == InitBoot /\ [][NextBoot]_vars

\* The tables, as the bootloader laid them out, map heap page k.
HeapPageMapped(m, k) ==
    translate_virtual_address(
        [m EXCEPT !.offset = boot.physical_memory_offset], HeapPage(k)).ok

\* C38: in memory::init the offset is stored before PHYSICAL_MEMORY_OFFSET
\* is first read, so the value it keeps is the offset of the boot
\* information; every page of the kernel heap is mapped when the page
\* allocator is initialised; and init is given as used_frames the number of
\* frames the heap mapping took from the usable frames.
C38_BootstrapOrder ==
    /\ [](boot.latched => mem.offset = boot.physical_memory_offset)
    /\ [][palast'.op = "init" /\ palast.op # "init" =>
             /\ \A k \in 0..(HeapPages - 1) : HeapPageMapped(mem, k)
             /\ boot'.used_frames = handed]_vars

\* memory::init has returned after booting with an offset that is not 0
\* and a heap that needed tables as well as frames.
C38_Witness ==
    /\ palast.op = "init"
    /\ boot.physical_memory_offset # {}
    /\ boot.used_frames > HeapPages
    /\ mem.offset = boot.physical_memory_offset


\* ------------------------------------------------------------------ C39
\* release takes any Range<usize>: here a caller passes a start with any
\* end, as PageAllocator::deallocate does with start + size.
ReleaseAnyEnd ==
    \E range \in Ranges :
        /\ ra.panic = NoPanic
        /\ ra' = release(ra, range)
        /\ added' = added
        /\ outstanding' = IF ra'.panic = NoPanic
                          THEN {o \in outstanding : o.start # range.start}
                          ELSE outstanding
        /\ last' = Call("release", 0, range,
                        IF ra'.panic = NoPanic THEN "ok" ELSE "panic",
                        NoRange, NoRange)
        /\ UNCHANGED <<dll_vars, bump_vars, kernel_vars>>

NextAnyEnd == Add \/ Allocate \/ ReleaseAnyEnd

SpecAnyEnd == Init /\ [][NextAnyEnd]_vars

\* The addresses an allocator has free.
FreeCellsOf(a) == UNION {Cells(r) : r \in FreeRanges(a)}

\* The addresses of the segments of an allocator.
AllCellsOf(a) ==
    UNION {Cells(RangeOf(a.node[a.segments[i]])) : i \in 1..Len(a.segments)}

\* C39: release(range) of a start that is allocated frees the segment that
\* was allocated there, whatever range.end is: the addresses of the range
\* allocate returned become free and no others, the start leaves the
\* allocated-table, and no segment is split.
C39_ReleaseByStart ==
    [][(last'.op = "release" /\ \E o \in outstanding : o.start = last'.range.start) =>
          LET o == CHOOSE x \in outstanding : x.start = last'.range.start
          IN  /\ last'.res = "ok"
              /\ FreeCellsOf(ra') = FreeCellsOf(ra) \cup Cells(o)
              /\ AllCellsOf(ra') = AllCellsOf(ra)
              /\ DOMAIN ra'.allocated_segments =
                     DOMAIN ra.allocated_segments \ {o.start}
              /\ Len(ra'.segments) <= Len(ra.segments)]_vars

\* A release with an end past the end of the allocation, and one with an
\* end inside it, have freed an allocation while another stayed out.
C39_Witness ==
    /\ last.op = "release" /\ last.res = "ok"
    /\ outstanding # {}
    /\ \E i \in 1..Len(SegList) :
           /\ IsFree(SegList[i])
           /\ SegList[i].start <= last.range.start
           /\ last.range.start < SegList[i].end
           /\ last.range.end > SegList[i].end


\* ------------------------------------------------------------------ C40
\* The freelist nodes linked into the freelists.
FreelistEntries ==
    UNION {{ra.freelists[k][i] : i \in 1..Len(ra.freelists[k])} :
               k \in DOMAIN ra.freelists}

\* C40: between operations every freelist entry refers to a segment of the
\* segment list whose freelist back-reference is that entry, and every
\* allocated-table entry refers to a segment of the segment list; no entry
\* refers to a segment that coalescing has removed.
C40_ReferenceIntegrity ==
    ra.panic = NoPanic =>
        /\ \A fn \in FreelistEntries :
               /\ ra.fnode[fn] # 0
               /\ InList(ra.segments, ra.fnode[fn])
               /\ ra.node[ra.fnode[fn]] # NoSegment
               /\ ra.node[ra.fnode[fn]].freelist_ptr = fn
        /\ \A k \in DOMAIN ra.allocated_segments :
               /\ InList(ra.segments, ra.allocated_segments[k])
               /\ ra.node[ra.allocated_segments[k]] # NoSegment

\* A release has merged the segment it freed into its free predecessor,
\* which removed it from the segment list, while another allocation is out
\* and a further segment is free.
C40_Witness ==
    /\ last.op = "release" /\ last.res = "ok"
    /\ DOMAIN ra.allocated_segments # {}
    /\ Cardinality(FreelistEntries) >= 2
    /\ \E i \in 1..Len(SegList) :
           /\ IsFree(SegList[i])
           /\ SegList[i].start < last.range.start
           /\ last.range.start < SegList[i].end

====
